---------------------------- MODULE Spec2Model ----------------------------
(***************************************************************************)
(* A model of paper-qa's Document Store (paperqa/docs.py, class Docs) and  *)
(* of the map step of its evidence gatherer (Docs.aget_evidence).          *)
(*                                                                         *)
(* Strings are sequences of character codes, so that the suffixing of      *)
(* _get_unique_name (chr(ord(suffix) + 1)) and the str.replace of the      *)
(* rename in aadd_texts are computed as Python computes them.              *)
(*                                                                         *)
(* Docs.index (docs.py:611) is read as the chunk index texts_index and     *)
(* Docs.max_concurrent (docs.py:680) as the store's concurrency limit.     *)
(***************************************************************************)
EXTENDS Integers, Sequences, FiniteSets, TLC

VARIABLES
    docs,             \* Docs.docs: the live mapping, in insertion order
    texts,            \* Docs.texts: the chunk list
    docnames,         \* Docs.docnames: the registry of used names
    deleted_dockeys,  \* Docs.deleted_dockeys: the tombstone set
    texts_index,      \* Docs.texts_index: chunks physically in the chunk index
    docs_index,       \* Docs.docs_index: documents physically in the doc index
    jit_texts_index,  \* Docs.jit_texts_index
    ret               \* what the operation performed last returned or raised

store == <<docs, texts, docnames, deleted_dockeys, texts_index, docs_index,
           jit_texts_index>>

VARIABLES
    gpc,              \* position of one aget_evidence call
    matches,          \* the candidate chunks handed to the map step
    max_concurrent,   \* Docs.max_concurrent: the limit on calls in flight
    call,             \* per candidate: "queued", "running" or "done"
    results,          \* per candidate: the pair map_fxn_summary returned
    issued,           \* per candidate: what its LLM call did and consumed
    tokens,           \* Answer's token counter
    evidence          \* what aget_evidence returned or raised

gather == <<gpc, matches, max_concurrent, call, results, issued, tokens, evidence>>

VARIABLES
    apc,              \* position of one aquery call
    settings,         \* the AnswerSettings and PromptSettings of the query
    answer,           \* the Answer: contexts, answer, references, formatted_answer
    filtered_contexts,\* aquery's local: the evidence retained for the answer
    context_str,      \* aquery's local: the context block
    answer_text,      \* aquery's local: what the QA call produced
    bib,              \* aquery's local: the cited names, in insertion order
    qa_calls          \* how many times the QA chain was invoked

query == <<apc, settings, answer, filtered_contexts, context_str, answer_text,
           bib, qa_calls>>

VARIABLES
    parsed,           \* ParsedText: the kind of file and its content
    chunk_chars,      \* the target chunk size
    overlap,          \* the overlap between consecutive chunks
    chunks            \* what the chunker returned or raised

chunking == <<parsed, chunk_chars, overlap, chunks>>

VARIABLES
    cquery,           \* the DOIQuery or TitleAuthorQuery given to the provider
    response,         \* what the Crossref API answers to it
    details           \* what CrossrefProvider._query returned or raised

crossref == <<cquery, response, details>>

VARIABLES
    cpc,              \* position of one run of chunk_pdf or chunk_code_text
    split_buf,        \* split: the rolling buffer
    part,             \* the page or line the for loop is at
    first_part,       \* the page or line the next chunk's label starts at
    emitted           \* texts: the chunks appended so far

looping == <<cpc, split_buf, part, first_part, emitted>>

VARIABLES
    rpc,              \* position of one _get_with_retrying call
    attempts,         \* how many requests the call has issued
    reply,            \* what the last request, and at the end the call, gave
    http_exception_mappings   \* the statuses the caller maps to exceptions

retrying == <<rpc, attempts, reply, http_exception_mappings>>

rest == <<query, chunking, crossref, looping, retrying>>

vars == <<docs, texts, docnames, deleted_dockeys, texts_index, docs_index,
          jit_texts_index, ret,
          gpc, matches, max_concurrent, call, results, issued, tokens, evidence,
          apc, settings, answer, filtered_contexts, context_str, answer_text,
          bib, qa_calls,
          parsed, chunk_chars, overlap, chunks,
          cquery, response, details,
          cpc, split_buf, part, first_part, emitted,
          rpc, attempts, reply, http_exception_mappings>>

None == "None"

-----------------------------------------------------------------------------
(* Bounds of the model.                                                    *)

MaxKeys == 2        \* dockeys are 1..MaxKeys
MaxAdds == 2        \* documents ever registered in the store
MaxK == 1           \* retrieve is asked for 0..MaxK chunks

Keys == 1..MaxKeys

(* A dockey is the hash of the document's content, and the content decides *)
(* how many chunks the chunker cuts it into: one or two.                   *)
NChunks(dockey) == 1 + ((dockey - 1) % 2)

(* Character codes: ord("a") and ord(" ").                                 *)
Cha == 97
ChSpace == 32

(* The names a caller derives or requests: "S" and "Sa" (the second is    *)
(* what suffixing the first produces).                                     *)
BaseNames == { <<83>>, <<83, Cha>> }

(* An argument left at its default None.                                   *)
NoKey == 0
NoName == <<>>

-----------------------------------------------------------------------------
(* Strings.                                                                *)

StartsWith(s, p) ==
    /\ Len(p) <= Len(s)
    /\ SubSeq(s, 1, Len(p)) = p

RECURSIVE ReplaceFrom(_, _, _, _)
(* str.replace(old, new) on s from position i on: leftmost occurrences,    *)
(* not overlapping.  old is not empty.                                     *)
ReplaceFrom(s, old, new, i) ==
    IF i > Len(s) THEN <<>>
    ELSE IF /\ i + Len(old) - 1 <= Len(s)
            /\ SubSeq(s, i, i + Len(old) - 1) = old
         THEN new \o ReplaceFrom(s, old, new, i + Len(old))
         ELSE <<s[i]>> \o ReplaceFrom(s, old, new, i + 1)

Replace(s, old, new) == ReplaceFrom(s, old, new, 1)

-----------------------------------------------------------------------------
(* Docs._get_unique_name                                                   *)

NextSuffix(suffix) ==
    IF suffix = <<>> THEN <<Cha>> ELSE <<suffix[1] + 1>>

RECURSIVE UniqueSuffix(_, _, _)
UniqueSuffix(docname, suffix, used) ==
    IF (docname \o suffix) \in used
    THEN UniqueSuffix(docname, NextSuffix(suffix), used)
    ELSE suffix

get_unique_name_nosuffix(docname, used) == docname

get_unique_name(docname, used) == docname \o UniqueSuffix(docname, <<>>, used)

-----------------------------------------------------------------------------
(* The chunker's naming (readers.py): "{doc.docname} chunk {i}", the       *)
(* positional descriptor shortened to " {i}".                              *)

ChunkName(docname, i) == docname \o <<ChSpace, 48 + i>>

Text(dockey, docname, i) ==
    [dockey |-> dockey, name |-> ChunkName(docname, i), text |-> 10 * dockey + i]

read_doc(dockey, docname, n) == [i \in 1..n |-> Text(dockey, docname, i)]

Doc(dockey, docname) == [dockey |-> dockey, docname |-> docname]

-----------------------------------------------------------------------------
(* The live mapping is a dict: unique keys, insertion order.               *)

DocKeys == { docs[i].dockey : i \in 1..Len(docs) }

DocOf(dockey) == docs[CHOOSE i \in 1..Len(docs) : docs[i].dockey = dockey]

(* What an operation returned or raised.  The type tag keeps values of     *)
(* different Python types apart.                                           *)
Returned(type, v) == [status |-> "ok", type |-> type, val |-> v]
ReturnedNone == Returned("None", None)
Raised(e) == [status |-> e, type |-> "None", val |-> None]

-----------------------------------------------------------------------------
(* Docs.aadd_texts                                                         *)

AlreadyPresentNever(dockey) == FALSE

AlreadyPresent(dockey) == dockey \in DocKeys

RenamedTextsStale(txts, old, new) == txts

(* t.name = t.name.replace(doc.docname, new_docname) for every t           *)
RenamedTexts(txts, old, new) ==
    [i \in 1..Len(txts) |-> [txts[i] EXCEPT !.name = Replace(@, old, new)]]

(* What aadd_texts(texts, doc) returns or raises, for the n chunks of doc. *)
aadd_texts_result(dockey, n) ==
    IF AlreadyPresent(dockey) THEN Returned("bool", FALSE)
    ELSE IF n = 0 THEN Raised("ValueError")
    ELSE Returned("bool", TRUE)

(* The effect of aadd_texts(texts, doc) on the store, for texts = the n    *)
(* chunks of doc as chunked under doc.docname.                             *)
aadd_texts(dockey, docname, n) ==
    IF aadd_texts_result(dockey, n) # Returned("bool", TRUE)
    THEN UNCHANGED store
    ELSE LET collides == docname \in docnames
             new_docname == IF collides THEN get_unique_name(docname, docnames)
                            ELSE docname
             chunked == read_doc(dockey, docname, n)
             txts == IF collides THEN RenamedTexts(chunked, docname, new_docname)
                     ELSE chunked
             doc == Doc(dockey, new_docname)
         IN  /\ texts_index' = IF jit_texts_index THEN texts_index
                               ELSE texts_index \o txts
             /\ docs_index' = Append(docs_index, doc)
             /\ docs' = Append(docs, doc)
             /\ texts' = texts \o txts
             /\ docnames' = docnames \cup {new_docname}
             /\ UNCHANGED <<deleted_dockeys, jit_texts_index>>

(* Docs.add_texts: the caller chunked the document itself, under the name  *)
(* it chose.                                                               *)
AddTextsOf(dockey, docname, n) ==
    /\ ret' = aadd_texts_result(dockey, n)
    /\ aadd_texts(dockey, docname, n)
    /\ UNCHANGED <<gather, rest>>

AddTexts ==
    /\ Len(docs_index) < MaxAdds
    /\ \E dockey \in Keys, docname \in BaseNames :
          \E n \in {0, NChunks(dockey)} : AddTextsOf(dockey, docname, n)

(* Docs.aadd: the name derived from the citation (or requested) is made    *)
(* unique, the document is read into chunks under it, and the chunks are   *)
(* handed to aadd_texts; the name is returned if the document was added,   *)
(* None otherwise.                                                         *)
AAddOf(dockey, base, n) ==
    LET docname == get_unique_name(base, docnames) IN
    /\ ret' = IF aadd_texts_result(dockey, n) = Returned("bool", TRUE)
              THEN Returned("str", docname) ELSE ReturnedNone
    /\ aadd_texts(dockey, docname, n)
    /\ UNCHANGED <<gather, rest>>

AAdd ==
    /\ Len(docs_index) < MaxAdds
    /\ \E dockey \in Keys, base \in BaseNames :
          AAddOf(dockey, base, NChunks(dockey))

-----------------------------------------------------------------------------
(* Docs.delete                                                             *)

PrunedTextsNone(dockey) == texts

(* list(filter(lambda x: x.doc.dockey != dockey, self.texts))              *)
PrunedTexts(dockey) == SelectSeq(texts, LAMBDA x : x.dockey # dockey)

(* next((doc for doc in self.docs.values() if doc.docname == name), None): *)
(* the position of the first live document named name, 0 for None.         *)
FirstNamed(name) ==
    IF \E i \in 1..Len(docs) : docs[i].docname = name
    THEN CHOOSE i \in 1..Len(docs) :
            /\ docs[i].docname = name
            /\ \A j \in 1..(i - 1) : docs[j].docname # name
    ELSE 0

(* del self.docs[dockey]; deleted_dockeys.add(dockey); texts filtered      *)
delete_key(dockey) ==
    IF dockey \notin DocKeys
    THEN /\ ret' = Raised("KeyError")
         /\ UNCHANGED <<docs, deleted_dockeys, texts>>
    ELSE /\ ret' = ReturnedNone
         /\ docs' = SelectSeq(docs, LAMBDA d : d.dockey # dockey)
         /\ deleted_dockeys' = deleted_dockeys \cup {dockey}
         /\ texts' = PrunedTexts(dockey)

(* delete(name, docname, dockey): name (docname is its alias) wins over    *)
(* dockey.                                                                 *)
delete(name, dockey) ==
    IF name # NoName
    THEN IF FirstNamed(name) = 0
         THEN /\ ret' = ReturnedNone
              /\ UNCHANGED <<docs, texts, docnames, deleted_dockeys>>
         ELSE LET doc == docs[FirstNamed(name)] IN
              IF doc.docname \notin docnames
              THEN /\ ret' = Raised("KeyError")
                   /\ UNCHANGED <<docs, texts, docnames, deleted_dockeys>>
              ELSE /\ docnames' = docnames \ {doc.docname}
                   /\ delete_key(doc.dockey)
    ELSE /\ UNCHANGED docnames
         /\ delete_key(dockey)

(* delete(name=...) or delete(docname=...)                                 *)
DeleteOf(name, dockey) ==
    /\ delete(name, dockey)
    /\ UNCHANGED <<texts_index, docs_index, jit_texts_index>>
    /\ UNCHANGED <<gather, rest>>

DeleteByName == \E name \in docnames \cup BaseNames : DeleteOf(name, NoKey)

(* delete(dockey=...), and delete() with no argument at all                *)
DeleteByKey == \E dockey \in Keys \cup {NoKey} : DeleteOf(NoName, dockey)

-----------------------------------------------------------------------------
(* The Vector Index (spec 4.2): search returns the k best of the indexed   *)
(* items under the ranking the query induces, all of them when fewer than  *)
(* k are indexed.  The ranking is any: the model enumerates which items    *)
(* are returned, listed in index order or in reverse index order.          *)

Reverse(s) == [i \in 1..Len(s) |-> s[Len(s) + 1 - i]]

Min(a, b) == IF a < b THEN a ELSE b

Picked(index, S) == SelectSeq([i \in 1..Len(index) |-> <<i, index[i]>>],
                              LAMBDA p : p[1] \in S)

max_marginal_relevance_search(index, k, fetch_k) ==
    LET m == Min(Min(k, fetch_k), Len(index))
        chosen == { S \in SUBSET (1..Len(index)) : Cardinality(S) = m }
        inorder == { [i \in 1..m |-> Picked(index, S)[i][2]] : S \in chosen }
    IN  inorder \cup { Reverse(r) : r \in inorder }

-----------------------------------------------------------------------------
(* Docs.retrieve_texts                                                     *)

OverFetch(k) == k + Cardinality(deleted_dockeys)

LiveOnlyUnfiltered(found) == found

(* [m for m in matches if m.text.doc.dockey not in self.deleted_dockeys]   *)
LiveOnly(found) == SelectSeq(found, LAMBDA m : m.dockey \notin deleted_dockeys)

(* matches[:k]                                                             *)
Truncate(found, k) == SubSeq(found, 1, Min(k, Len(found)))

retrieve_texts(k) ==
    { Truncate(LiveOnly(found), k) :
        found \in max_marginal_relevance_search(texts_index, OverFetch(k),
                                                2 * OverFetch(k)) }

RetrieveOf(k) ==
    \E found \in retrieve_texts(k) :
        /\ ret' = Returned("texts", found)
        /\ UNCHANGED store
        /\ UNCHANGED <<gather, rest>>

Retrieve == \E k \in 0..MaxK : RetrieveOf(k)

-----------------------------------------------------------------------------
(* The store as constructed: Docs().                                       *)

StoreInit ==
    /\ docs = <<>>
    /\ texts = <<>>
    /\ docnames = {}
    /\ deleted_dockeys = {}
    /\ texts_index = <<>>
    /\ docs_index = <<>>
    /\ jit_texts_index \in BOOLEAN
    /\ ret = ReturnedNone

QueryIdle ==
    /\ apc = "idle"
    /\ settings = None
    /\ answer = None
    /\ filtered_contexts = <<>>
    /\ context_str = <<>>
    /\ answer_text = <<>>
    /\ bib = <<>>
    /\ qa_calls = 0

(* No file read yet.                                                       *)
NoFile == [kind |-> "None", content |-> <<>>]

ChunkIdle ==
    /\ parsed = NoFile
    /\ chunk_chars = 0
    /\ overlap = 0
    /\ chunks = ReturnedNone

(* No query made and no response received yet.                             *)
NoQuery == [kind |-> "None", doi |-> 0, title |-> 0, threshold |-> 0,
            fields |-> "None"]
NoResponse == [http_ok |-> FALSE, json_ok |-> FALSE, status |-> "None",
               items |-> -1, has_title |-> FALSE, similarity |-> 0, doi |-> 0,
               bibtex_ok |-> FALSE]

CrossrefIdle ==
    /\ cquery = NoQuery
    /\ response = NoResponse
    /\ details = ReturnedNone

LoopIdle ==
    /\ cpc = "idle"
    /\ split_buf = <<>>
    /\ part = 0
    /\ first_part = 0
    /\ emitted = <<>>

RetryIdle ==
    /\ rpc = "idle"
    /\ attempts = 0
    /\ reply = ReturnedNone
    /\ http_exception_mappings = {}

GatherIdle ==
    /\ gpc = "idle"
    /\ matches = <<>>
    /\ max_concurrent = 0
    /\ call = <<>>
    /\ results = <<>>
    /\ issued = <<>>
    /\ tokens = 0
    /\ evidence = ReturnedNone

Init ==
    /\ StoreInit /\ GatherIdle /\ QueryIdle /\ ChunkIdle /\ CrossrefIdle
    /\ LoopIdle /\ RetryIdle

Next ==
    \/ AddTexts
    \/ AAdd
    \/ DeleteByName
    \/ DeleteByKey
    \/ Retrieve

Spec == Init /\ [][Next]_vars

-----------------------------------------------------------------------------
(* Docs.clear_docs: texts, docs and docnames are emptied; the indices and  *)
(* the tombstones are left as they are.                                    *)
clear_docs ==
    /\ texts' = <<>>
    /\ docs' = <<>>
    /\ docnames' = {}
    /\ UNCHANGED <<deleted_dockeys, texts_index, docs_index, jit_texts_index>>

ClearDocs ==
    /\ clear_docs
    /\ ret' = ReturnedNone
    /\ UNCHANGED <<gather, rest>>

(* The store under add, delete, clear_docs and retrieve.                   *)
ClearNext ==
    \/ AddTexts
    \/ AAdd
    \/ DeleteByName
    \/ DeleteByKey
    \/ ClearDocs
    \/ Retrieve

SpecClear == Init /\ [][ClearNext]_vars

-----------------------------------------------------------------------------
(* Documents of one base name, added one after the other under fresh keys. *)
(* The first MaxKeys of them are open to deletion by dockey, and names are *)
(* deleted while no more than MaxKeys documents were added.                *)

NamesMax == 27      \* documents added under the one base name

NamesAdd ==
    /\ Len(docs_index) < NamesMax
    /\ LET dockey == Len(docs_index) + 1 IN
         \/ AddTextsOf(dockey, <<83>>, NChunks(dockey))
         \/ AAddOf(dockey, <<83>>, NChunks(dockey))

NamesDeleteByName ==
    /\ Len(docs_index) <= MaxKeys
    /\ \E name \in BaseNames : DeleteOf(name, NoKey)

NamesNext ==
    \/ NamesAdd
    \/ NamesDeleteByName
    \/ DeleteByKey

SpecNames == Init /\ [][NamesNext]_vars

-----------------------------------------------------------------------------
(* Claims about the Document Store.                                        *)

IndexedKeys == { texts_index[i].dockey : i \in 1..Len(texts_index) }

(* C1: no dockey is at the same time a key of the live mapping and a       *)
(* member of the tombstone set, whatever adds and deletes came before.     *)
C1_LiveNeverTombstoned == DocKeys \cap deleted_dockeys = {}

(* C2: adding a document whose dockey is live changes nothing in the store *)
(* (mapping, chunk list, name registry, tombstones, both indices);         *)
(* aadd_texts returns False and aadd returns None.                         *)
C2_ReAddIsNoOp ==
    [][\A dockey \in DocKeys, docname \in BaseNames :
          /\ (\E n \in {0, NChunks(dockey)} : AddTextsOf(dockey, docname, n))
                => (ret' = Returned("bool", FALSE) /\ UNCHANGED store)
          /\ AAddOf(dockey, docname, NChunks(dockey))
                => (ret' = ReturnedNone /\ UNCHANGED store)]_vars

C2_Witness ==
    /\ ret = Returned("bool", FALSE)
    /\ Len(docs) > 0
    /\ Len(texts) > 0

(* C3: retrieve_texts(query, k) returns at most k chunks, none of them     *)
(* owned by a tombstoned document, also when the chunk index still holds   *)
(* chunks of deleted documents.                                            *)
C3_RetrieveSkipsTombstoned ==
    [][\A k \in 0..MaxK :
          RetrieveOf(k) =>
             /\ Len(ret'.val) <= k
             /\ \A i \in 1..Len(ret'.val) :
                   ret'.val[i].dockey \notin deleted_dockeys]_vars

C3_Witness ==
    /\ ret.type = "texts"
    /\ Len(ret.val) > 0
    /\ IndexedKeys \cap deleted_dockeys # {}

(* C4: delete of a live document, by name or by dockey, removes its key    *)
(* from the live mapping, adds it to the tombstone set and leaves no chunk *)
(* of that document in the chunk list.                                     *)
C4_DeleteRemoves ==
    [][\A d \in 1..Len(docs) :
          (DeleteOf(docs[d].docname, NoKey) \/ DeleteOf(NoName, docs[d].dockey))
             => /\ docs[d].dockey \notin DocKeys'
                /\ docs[d].dockey \in deleted_dockeys'
                /\ \A i \in 1..Len(texts') :
                      texts'[i].dockey # docs[d].dockey]_vars

C4_Witness ==
    /\ ret = ReturnedNone
    /\ \E dockey \in deleted_dockeys :
          /\ dockey \notin DocKeys
          /\ dockey \in IndexedKeys
          /\ \A i \in 1..Len(texts) : texts[i].dockey # dockey
    /\ Len(texts) > 0

(* C5: delete of a target that is not in the store, given by name or by    *)
(* dockey, raises nothing and changes nothing.                             *)
C5_DeleteMissingIsSilent ==
    [][/\ \A name \in BaseNames :
             (FirstNamed(name) = 0 /\ DeleteOf(name, NoKey))
                => (ret' = ReturnedNone /\ UNCHANGED store)
       /\ \A dockey \in Keys :
             (dockey \notin DocKeys /\ DeleteOf(NoName, dockey))
                => (ret' = ReturnedNone /\ UNCHANGED store)]_vars

(* The live documents have pairwise distinct docnames.                     *)
DistinctLive ==
    \A i, j \in 1..Len(docs) : i # j => docs[i].docname # docs[j].docname

(* C6: the live documents have pairwise distinct docnames; and as long as  *)
(* nothing was deleted, documents of one base name are named, in order of  *)
(* addition, by the bare name and then the name suffixed a, b, ..., z.     *)
C6_DistinctDocnames ==
    /\ DistinctLive
    /\ deleted_dockeys = {} =>
          \A i \in 1..Len(docs) :
             i <= 27 =>
                docs[i].docname = IF i = 1 THEN <<83>> ELSE <<83, Cha + (i - 2)>>

C6_Witness ==
    /\ Len(docs) >= 26
    /\ deleted_dockeys = {}

(* C7: the name of every chunk in the chunk list starts with the current   *)
(* docname of the document that owns it, also right after aadd_texts       *)
(* renamed the document to resolve a collision.                            *)
C7_ChunkNamePrefix ==
    \A i \in 1..Len(texts) :
       /\ texts[i].dockey \in DocKeys
       /\ StartsWith(texts[i].name, DocOf(texts[i].dockey).docname)

C7_Witness ==
    /\ ret = Returned("bool", TRUE)
    /\ Len(docs) = 2
    /\ docs[1].docname = <<83, Cha>>
    /\ docs[2].docname = <<83, Cha, Cha>>
    /\ \E i \in 1..Len(texts) : texts[i].dockey = docs[2].dockey

-----------------------------------------------------------------------------
(* Docs.aget_evidence: retrieval, then the map step.                       *)

MaxMatchK == 2        \* answer_config.doc_match_k is 1..MaxMatchK
MaxConcurrent == 2    \* Docs.max_concurrent is 1..MaxConcurrent
MaxScore == 1         \* a relevance score is -1..MaxScore

MaxCand == MaxMatchK + 1

(* exclude_text_filter: absent or empty, the text of a stored chunk, or a  *)
(* text that is in no document.                                            *)
ExcludeFilters == { {}, {11}, {99} }

(* The token usage of the i-th scoring call: a different power of two for  *)
(* each call, so that a sum of usages tells which calls were counted.      *)
Usage(i) == 2 ^ (i - 1)

(* What one scoring call did: it answered with a score, it answered with   *)
(* text no score can be parsed from, or it raised.                         *)
Outcomes(i) ==
    { [kind |-> "scored", score |-> sc, usage |-> Usage(i)] : sc \in -1..MaxScore }
    \cup { [kind |-> "unparsable", score |-> 0, usage |-> Usage(i)],
           [kind |-> "raised", score |-> 0, usage |-> 0] }

NotIssued == [kind |-> "none", score |-> 0, usage |-> 0]

Context(m, score) == [none |-> FALSE, text |-> m.text, score |-> score]
NoContext == [none |-> TRUE, text |-> 0, score |-> 0]

LLMResult(usage) == [usage |-> usage]

(* map_fxn_summary (paperqa/core.py) for candidate m: the pair (Context,   *)
(* LLMResult).  An unparsable score counts as score zero; a call that      *)
(* raised leaves no context and no usage, and does not end the batch.      *)
map_fxn_summary(m, outcome) ==
    IF outcome.kind = "raised" THEN <<NoContext, LLMResult(0)>>
    ELSE <<Context(m, outcome.score), LLMResult(outcome.usage)>>

Running == { i \in 1..Len(call) : call[i] = "running" }

ConcurrencyUnbounded == Len(matches) + 1

(* gather_with_concurrency(self.max_concurrent, ...)                       *)
ConcurrencyLimit == max_concurrent

RECURSIVE SumUsage(_)
SumUsage(rs) == IF rs = <<>> THEN 0 ELSE rs[1][2].usage + SumUsage(Tail(rs))

AddedTokensKeptOnly(rs) ==
    SumUsage(SelectSeq(rs, LAMBDA r : ~r[1].none /\ r[1].score > 0))

(* for _, llm_result in results: answer.add_tokens(llm_result)             *)
AddedTokens(rs) == SumUsage(rs)

Firsts(rs) == [i \in 1..Len(rs) |-> rs[i][1]]

KeptContextsNonNegative(rs) ==
    Returned("contexts", SelectSeq(Firsts(rs), LAMBDA r : ~r.none /\ r.score >= 0))

KeptContextsNoNoneCheck(rs) ==
    IF \E i \in 1..Len(rs) : rs[i][1].none
    THEN Raised("AttributeError")
    ELSE Returned("contexts", SelectSeq(Firsts(rs), LAMBDA r : r.score > 0))

(* [r for r, _ in results if r is not None and r.score > 0]                *)
KeptContexts(rs) ==
    Returned("contexts", SelectSeq(Firsts(rs), LAMBDA r : ~r.none /\ r.score > 0))

GatherStartOfNoEarlyReturn(k, exclude) ==
    /\ gpc = "idle"
    /\ IF exclude = {}
       THEN /\ gpc' = "raised"
            /\ evidence' = Raised("UnboundLocalError")
            /\ UNCHANGED <<matches, call, results, issued>>
       ELSE \E found \in retrieve_texts(k + Cardinality(exclude)) :
               LET kept == SelectSeq(found, LAMBDA m : m.text \notin exclude) IN
               /\ matches' = kept
               /\ call' = [i \in 1..Len(kept) |-> "queued"]
               /\ results' = [i \in 1..Len(kept) |-> <<NoContext, LLMResult(0)>>]
               /\ issued' = [i \in 1..Len(kept) |-> NotIssued]
               /\ gpc' = "map"
               /\ UNCHANGED evidence
    /\ UNCHANGED <<max_concurrent, tokens>>
    /\ UNCHANGED <<store, ret, rest>>

(* aget_evidence up to the map step: the empty-store return, _k (bound     *)
(* only under a non-empty exclude_text_filter), retrieval, exclusion, and  *)
(* one scoring coroutine per remaining candidate.                          *)
GatherStartOf(k, exclude) ==
    /\ gpc = "idle"
    /\ IF Len(docs) = 0
       THEN /\ gpc' = "done"
            /\ evidence' = Returned("contexts", <<>>)
            /\ UNCHANGED <<matches, call, results, issued>>
       ELSE IF exclude = {}
       THEN /\ gpc' = "raised"
            /\ evidence' = Raised("UnboundLocalError")
            /\ UNCHANGED <<matches, call, results, issued>>
       ELSE \E found \in retrieve_texts(k + Cardinality(exclude)) :
               LET kept == SelectSeq(found, LAMBDA m : m.text \notin exclude) IN
               /\ matches' = kept
               /\ call' = [i \in 1..Len(kept) |-> "queued"]
               /\ results' = [i \in 1..Len(kept) |-> <<NoContext, LLMResult(0)>>]
               /\ issued' = [i \in 1..Len(kept) |-> NotIssued]
               /\ gpc' = "map"
               /\ UNCHANGED evidence
    /\ UNCHANGED <<max_concurrent, tokens>>
    /\ UNCHANGED <<store, ret, rest>>

GatherStart ==
    \E k \in 1..MaxMatchK, exclude \in ExcludeFilters : GatherStartOf(k, exclude)

(* gather_with_concurrency (paperqa/utils.py): a coroutine starts its call *)
(* once the semaphore has a free slot.                                     *)
StartCall ==
    \E i \in 1..Len(call) :
        /\ gpc = "map"
        /\ call[i] = "queued"
        /\ Cardinality(Running) < ConcurrencyLimit
        /\ call' = [call EXCEPT ![i] = "running"]
        /\ UNCHANGED <<gpc, matches, max_concurrent, results, issued, tokens,
                       evidence>>
        /\ UNCHANGED <<store, ret, rest>>

(* A call in flight ends, in any order, and releases its slot.             *)
FinishCall ==
    \E i \in 1..Len(call) :
        /\ gpc = "map"
        /\ call[i] = "running"
        /\ \E outcome \in Outcomes(i) :
              /\ issued' = [issued EXCEPT ![i] = outcome]
              /\ results' = [results EXCEPT ![i] = map_fxn_summary(matches[i], outcome)]
        /\ call' = [call EXCEPT ![i] = "done"]
        /\ UNCHANGED <<gpc, matches, max_concurrent, tokens, evidence>>
        /\ UNCHANGED <<store, ret, rest>>

(* aget_evidence after the map step: token accounting, then the filter.    *)
Collect ==
    /\ gpc = "map"
    /\ \A i \in 1..Len(call) : call[i] = "done"
    /\ tokens' = tokens + AddedTokens(results)
    /\ evidence' = KeptContexts(results)
    /\ gpc' = IF KeptContexts(results).status = "ok" THEN "done" ELSE "raised"
    /\ UNCHANGED <<matches, max_concurrent, call, results, issued>>
    /\ UNCHANGED <<store, ret, rest>>

(* The store a query runs against: empty, or holding document 1 as "S" and *)
(* document 2, added under the same name, as "Sa".                         *)
GatherStoreInit ==
    /\ \/ /\ docs = <<>>
          /\ ret = ReturnedNone
       \/ /\ docs = <<Doc(1, <<83>>), Doc(2, <<83, Cha>>)>>
          /\ ret = Returned("bool", TRUE)
    /\ texts = IF docs = <<>> THEN <<>>
               ELSE read_doc(1, <<83>>, NChunks(1)) \o read_doc(2, <<83, Cha>>, NChunks(2))
    /\ docnames = { docs[i].docname : i \in 1..Len(docs) }
    /\ deleted_dockeys = {}
    /\ texts_index = texts
    /\ docs_index = docs
    /\ jit_texts_index = FALSE

GatherInit ==
    /\ GatherStoreInit
    /\ gpc = "idle"
    /\ matches = <<>>
    /\ max_concurrent \in 1..MaxConcurrent
    /\ call = <<>>
    /\ results = <<>>
    /\ issued = <<>>
    /\ tokens = 0
    /\ evidence = ReturnedNone
    /\ QueryIdle
    /\ ChunkIdle
    /\ CrossrefIdle
    /\ LoopIdle
    /\ RetryIdle

GatherNext ==
    \/ GatherStart
    \/ StartCall
    \/ FinishCall
    \/ Collect

SpecGather == GatherInit /\ [][GatherNext]_vars

(* Every call in flight returns or raises, and the event loop runs every   *)
(* coroutine that can run.                                                 *)
FairSpecGather ==
    /\ GatherInit
    /\ [][GatherNext]_vars
    /\ WF_vars(StartCall)
    /\ WF_vars(FinishCall)
    /\ WF_vars(Collect)

(* A store that is filled and emptied by add_texts and delete, and then    *)
(* queried once.                                                           *)
StoreGatherNext ==
    \/ gpc = "idle" /\ AddTexts
    \/ gpc = "idle" /\ DeleteByName
    \/ gpc = "idle" /\ DeleteByKey
    \/ GatherStart

SpecStoreGather == Init /\ [][StoreGatherNext]_vars

-----------------------------------------------------------------------------
(* Claims about the map step.                                              *)

MapStepOver == Len(call) > 0 /\ gpc \in {"done", "raised"}

Indices(n) == [i \in 1..n |-> i]

(* The evidence of the candidates whose call answered with a positive      *)
(* score, in candidate order.                                              *)
ScoredPositive ==
    LET good == SelectSeq(Indices(Len(matches)),
                          LAMBDA i : issued[i].kind = "scored" /\ issued[i].score > 0)
    IN  [j \in 1..Len(good) |-> Context(matches[good[j]], issued[good[j]].score)]

RECURSIVE SumIssued(_)
SumIssued(is) == IF is = <<>> THEN 0 ELSE is[1].usage + SumIssued(Tail(is))

(* C9: whatever the order in which the scoring calls of one gather end,    *)
(* the Answer's token counter has grown by the usage of every issued call, *)
(* each counted once, kept by the score filter or not.                     *)
C9_TokensCountedOnce ==
    MapStepOver => tokens = SumIssued(issued)

C9_Witness ==
    /\ MapStepOver
    /\ Len(issued) >= 2
    /\ \E i \in 1..Len(issued) : issued[i].kind = "scored" /\ issued[i].score = 0
    /\ \E i \in 1..Len(issued) : issued[i].kind = "scored" /\ issued[i].score > 0
    /\ tokens > 0

-----------------------------------------------------------------------------
(* Docs.aquery: the answer synthesizer.  Strings are sequences of          *)
(* character codes, the literals below spelled out from the source.        *)

MaxSources == 2       \* answer_config.answer_max_sources is 1..MaxSources
MaxCtxScore == 2      \* the score of a gathered context is 1..MaxCtxScore

(* if len(context_str) < 10                                                *)
MinContextLen == 10

(* "I cannot answer this question due to insufficient information."        *)
CannotAnswer ==
    <<73, 32, 99, 97, 110, 110, 111, 116, 32, 97, 110, 115, 119, 101, 114,
      32, 116, 104, 105, 115, 32, 113, 117, 101, 115, 116, 105, 111, 110,
      32, 100, 117, 101, 32, 116, 111, 32, 105, 110, 115, 117, 102, 102,
      105, 99, 105, 101, 110, 116, 32, 105, 110, 102, 111, 114, 109, 97,
      116, 105, 111, 110, 46>>

(* "\n\nValid keys: "                                                      *)
ValidKeys ==
    <<10, 10, 86, 97, 108, 105, 100, 32, 107, 101, 121, 115, 58, 32>>

(* PromptSettings.EXAMPLE_CITATION: "(Example2012Example pages 3-4)"       *)
EXAMPLE_CITATION ==
    <<40, 69, 120, 97, 109, 112, 108, 101, 50, 48, 49, 50, 69, 120, 97,
      109, 112, 108, 101, 32, 112, 97, 103, 101, 115, 32, 51, 45, 52, 41>>

(* "Extra background information: "                                        *)
ExtraBackground ==
    <<69, 120, 116, 114, 97, 32, 98, 97, 99, 107, 103, 114, 111, 117, 110,
      100, 32, 105, 110, 102, 111, 114, 109, 97, 116, 105, 111, 110, 58,
      32>>

(* "\nFrom ", "Question: ", "\nReferences\n\n"                             *)
FromLine == <<10, 70, 114, 111, 109, 32>>
QuestionLine == <<81, 117, 101, 115, 116, 105, 111, 110, 58, 32>>
ReferencesLine == <<10, 82, 101, 102, 101, 114, 101, 110, 99, 101, 115, 10, 10>>

(* "\n\n", "\n", ": ", ", ", ". (" and "): "                               *)
Blank == <<10, 10>>
Newline == <<10>>
ColonSp == <<58, 32>>
CommaSp == <<44, 32>>
DotParen == <<46, 32, 40>>
ParenColon == <<41, 58, 32>>

RECURSIVE Join(_, _)
(* sep.join(strs)                                                          *)
Join(strs, sep) ==
    IF strs = <<>> THEN <<>>
    ELSE IF Len(strs) = 1 THEN strs[1]
    ELSE strs[1] \o sep \o Join(Tail(strs), sep)

(* old in s                                                                *)
Contains(s, old) ==
    \E i \in 1..(Len(s) - Len(old) + 1) : SubSeq(s, i, i + Len(old) - 1) = old

(* A word character of a regular expression: a digit, a letter or "_".     *)
IsWord(ch) ==
    \/ ch \in 48..57
    \/ ch \in 65..90
    \/ ch \in 97..122
    \/ ch = 95

(* name_in_text (paperqa/utils.py): name occurs in text as a whole token,  *)
(* with no word character right before it or right after it.               *)
name_in_text(name, text) ==
    \E i \in 1..(Len(text) - Len(name) + 1) :
        /\ SubSeq(text, i, i + Len(name) - 1) = name
        /\ i = 1 \/ ~IsWord(text[i - 1])
        /\ i + Len(name) > Len(text) \/ ~IsWord(text[i + Len(name)])

(* The chunk names evidence is cited by: "S 1", "S 11" (which "S 1" is a   *)
(* proper prefix of) and "Sa 1".                                           *)
SourceNames ==
    { ChunkName(<<83>>, 1), ChunkName(<<83>>, 1) \o <<49>>, ChunkName(<<83, Cha>>, 1) }

(* c.text.doc.citation of the chunk called name: "C:" and the name         *)
Citation(name) == <<67, 58>> \o name

(* A Context as the gatherer returns it: c.text.name, the summary          *)
(* c.context ("sum") and c.score.                                          *)
Evidence(name, score) ==
    [name |-> name, context |-> <<115, 117, 109>>, score |-> score]

(* The question asked: "Q?"                                                *)
Question == <<81, 63>>


RECURSIVE InsertDesc(_, _)
(* c goes after every element whose score is not smaller than its own.     *)
InsertDesc(sorted, c) ==
    IF sorted = <<>> THEN <<c>>
    ELSE IF sorted[1].score >= c.score
         THEN <<sorted[1]>> \o InsertDesc(Tail(sorted), c)
         ELSE <<c>> \o sorted

RECURSIVE InsertAsc(_, _)
InsertAsc(sorted, c) ==
    IF sorted = <<>> THEN <<c>>
    ELSE IF sorted[1].score <= c.score
         THEN <<sorted[1]>> \o InsertAsc(Tail(sorted), c)
         ELSE <<c>> \o sorted

RECURSIVE SortedAscending(_)
SortedAscending(cs) ==
    IF cs = <<>> THEN <<>>
    ELSE InsertAsc(SortedAscending(SubSeq(cs, 1, Len(cs) - 1)), cs[Len(cs)])

RECURSIVE SortedDescending(_)
SortedDescending(cs) ==
    IF cs = <<>> THEN <<>>
    ELSE InsertDesc(SortedDescending(SubSeq(cs, 1, Len(cs) - 1)), cs[Len(cs)])

(* sorted(contexts, key=score)[::-1]: equal scores come out reversed       *)
SortedByScoreReversed(cs) == Reverse(SortedAscending(cs))

(* sorted(contexts, key=lambda x: x.score, reverse=True): Python's sort is *)
(* stable, also under reverse=True.                                        *)
SortedByScore(cs) == SortedDescending(cs)

(* sorted(...)[: answer_config.answer_max_sources]                         *)
FilteredContexts(cs, answer_max_sources) ==
    Truncate(SortedByScore(cs), answer_max_sources)

(* f"{c.text.name}: {c.context}" and, with evidence_detailed_citations,    *)
(* f"\nFrom {c.text.doc.citation}" (model_extra is empty)                  *)
ContextLine(c, detailed) ==
    c.name \o ColonSp \o c.context
    \o (IF detailed THEN FromLine \o Citation(c.name) ELSE <<>>)

Names(cs) == [i \in 1..Len(cs) |-> cs[i].name]

(* context_str: the conditional binds weaker than +, so the whole list     *)
(* (evidence lines and background) is joined if pre_str is truthy, and the *)
(* empty list otherwise; then the valid keys are appended.                 *)
ContextStr(filtered, pre_str, detailed) ==
    Join(IF pre_str # <<>>
         THEN [i \in 1..Len(filtered) |-> ContextLine(filtered[i], detailed)]
              \o << ExtraBackground \o pre_str >>
         ELSE <<>>,
         Blank)
    \o ValidKeys \o Join(Names(filtered), CommaSp)

(* The short circuit of the degenerate case.                               *)
TooShort(cstr) == Len(cstr) < MinContextLen

(* answer_text.replace(EXAMPLE_CITATION, "")                               *)
StripExample(text) ==
    IF Contains(text, EXAMPLE_CITATION) THEN Replace(text, EXAMPLE_CITATION, <<>>)
    ELSE text

(* if name in answer_text                                                  *)
CitedBySubstring(filtered, text) ==
    LET names == Names(filtered)
        idx == SelectSeq([i \in 1..Len(names) |-> i],
                         LAMBDA i : /\ Contains(text, names[i])
                                    /\ \A j \in 1..(i - 1) : names[j] # names[i])
    IN  [j \in 1..Len(idx) |-> names[idx[j]]]

(* for c in reversed(filtered_contexts)                                    *)
CitedLastFirst(filtered, text) ==
    LET names == Names(filtered)
        idx == SelectSeq([i \in 1..Len(names) |-> i],
                         LAMBDA i : /\ name_in_text(names[i], text)
                                    /\ \A j \in 1..(i - 1) : names[j] # names[i])
    IN  Reverse([j \in 1..Len(idx) |-> names[idx[j]]])

(* for c in filtered_contexts: if name_in_text(name, answer_text):         *)
(* bib[name] = citation.  A dict keeps a key where it was first inserted.  *)
Cited(filtered, text) ==
    LET names == Names(filtered)
        idx == SelectSeq([i \in 1..Len(names) |-> i],
                         LAMBDA i : /\ name_in_text(names[i], text)
                                    /\ \A j \in 1..(i - 1) : names[j] # names[i])
    IN  [j \in 1..Len(idx) |-> names[idx[j]]]

(* "\n\n".join([f"{i+1}. ({k}): {c}" for i, (k, c) in enumerate(bib)])     *)
BibStr(b) ==
    Join([i \in 1..Len(b) |->
            <<48 + i>> \o DotParen \o b[i] \o ParenColon \o Citation(b[i])],
         Blank)

(* f"Question: {answer.question}\n\n{text}\n" and, if anything is cited,   *)
(* f"\nReferences\n\n{bib_str}\n"                                          *)
Formatted(text, b) ==
    QuestionLine \o Question \o Blank \o text \o Newline
    \o (IF Len(b) > 0 THEN ReferencesLine \o BibStr(b) \o Newline ELSE <<>>)


(* What one LLM call of the query did: it was not made, it answered with a *)
(* text, or it raised.                                                     *)
NotCalled == [status |-> "none", text |-> <<>>]
Answered(text) == [status |-> "ok", text |-> text]
CallRaised == [status |-> "raised", text |-> <<>>]

(* The background the pre-processing call answers with: "" or "bg".        *)
PreTexts == { <<>>, <<98, 103>> }

(* What the QA call answers with: "x.", "x S 1.", "x S 11.",               *)
(* "x Sa 1, S 1.", "xS 1 y", "S 1_y", and "x " followed by the example     *)
(* citation.                                                               *)
AnswerTexts ==
    { <<120, 46>>,
      <<120, 32, 83, 32, 49, 46>>,
      <<120, 32, 83, 32, 49, 49, 46>>,
      <<120, 32, 83, 97, 32, 49, 44, 32, 83, 32, 49, 46>>,
      <<120, 83, 32, 49, 32, 121>>,
      <<83, 32, 49, 95, 121>>,
      <<120, 32>> \o EXAMPLE_CITATION }

(* What the post-processing call answers with: "p Sa 1."                   *)
PostTexts == { <<112, 32, 83, 97, 32, 49, 46>> }

CallOutcomes(answers) == { Answered(t) : t \in answers } \cup { CallRaised }

Used(outcome) == IF outcome.status = "ok" THEN 1 ELSE 0

(* aquery that writes the QA answer into the Answer before the           *)
(* post-processing call is made.                                           *)
aquery_synthesize_eager(contexts, pre, qa, post) ==
    LET pre_str == pre.text
        filtered == FilteredContexts(contexts, settings.answer_max_sources)
        cstr == ContextStr(filtered, pre_str, settings.evidence_detailed_citations)
        produced == StripExample(IF TooShort(cstr) THEN CannotAnswer ELSE qa.text)
        cited == Cited(filtered, produced)
        final_text == IF settings.post THEN post.text ELSE produced
    IN  IF pre.status = "raised"
        THEN /\ apc' = "raised"
             /\ UNCHANGED <<answer, filtered_contexts, context_str, answer_text,
                            bib, qa_calls, tokens>>
        ELSE IF qa.status = "raised"
        THEN /\ apc' = "raised"
             /\ filtered_contexts' = filtered
             /\ context_str' = cstr
             /\ qa_calls' = qa_calls + 1
             /\ tokens' = tokens + Used(pre)
             /\ UNCHANGED <<answer, answer_text, bib>>
        ELSE /\ filtered_contexts' = filtered
             /\ context_str' = cstr
             /\ qa_calls' = qa_calls + (IF qa.status = "none" THEN 0 ELSE 1)
             /\ answer_text' = produced
             /\ bib' = cited
             /\ tokens' = tokens + Used(pre) + Used(qa) + Used(post)
             /\ IF post.status = "raised"
                THEN /\ apc' = "raised"
                     /\ answer' = [answer EXCEPT
                                     !.answer = produced,
                                     !.formatted_answer = Formatted(produced, cited),
                                     !.references = BibStr(cited),
                                     !.contexts = contexts]
                ELSE /\ apc' = "synthesized"
                     /\ answer' = [answer EXCEPT
                                     !.answer = final_text,
                                     !.formatted_answer = Formatted(final_text, cited),
                                     !.references = BibStr(cited),
                                     !.contexts = contexts]

(* aquery from the pre-processing call on (docs.py:742-838), for the       *)
(* evidence contexts and the outcomes of the calls it makes.               *)
aquery_synthesize(contexts, pre, qa, post) ==
    LET pre_str == pre.text
        filtered == FilteredContexts(contexts, settings.answer_max_sources)
        cstr == ContextStr(filtered, pre_str, settings.evidence_detailed_citations)
        produced == StripExample(IF TooShort(cstr) THEN CannotAnswer ELSE qa.text)
        cited == Cited(filtered, produced)
        final_text == IF settings.post THEN post.text ELSE produced
    IN  IF pre.status = "raised"
        THEN /\ apc' = "raised"
             /\ UNCHANGED <<answer, filtered_contexts, context_str, answer_text,
                            bib, qa_calls, tokens>>
        ELSE IF qa.status = "raised"
        THEN /\ apc' = "raised"
             /\ filtered_contexts' = filtered
             /\ context_str' = cstr
             /\ qa_calls' = qa_calls + 1
             /\ tokens' = tokens + Used(pre)
             /\ UNCHANGED <<answer, answer_text, bib>>
        ELSE /\ filtered_contexts' = filtered
             /\ context_str' = cstr
             /\ qa_calls' = qa_calls + (IF qa.status = "none" THEN 0 ELSE 1)
             /\ answer_text' = produced
             /\ bib' = cited
             /\ tokens' = tokens + Used(pre) + Used(qa) + Used(post)
             /\ IF post.status = "raised"
                THEN /\ apc' = "raised"
                     /\ UNCHANGED answer
                ELSE /\ apc' = "synthesized"
                     /\ answer' = [answer EXCEPT
                                     !.answer = final_text,
                                     !.formatted_answer = Formatted(final_text, cited),
                                     !.references = BibStr(cited),
                                     !.contexts = contexts]

(* aquery's first step: an Answer without contexts gets them from          *)
(* aget_evidence, called with no exclude_text_filter.                      *)
QueryGather ==
    /\ apc = "created"
    /\ answer.contexts = <<>>
    /\ \E k \in 1..MaxMatchK : GatherStartOf(k, {})

(* aget_evidence raised: the exception leaves aquery.                      *)
QueryFail ==
    /\ apc = "created"
    /\ gpc = "raised"
    /\ apc' = "raised"
    /\ UNCHANGED <<settings, answer, filtered_contexts, context_str, answer_text,
                   bib, qa_calls>>
    /\ UNCHANGED <<store, ret, gather, chunking, crossref, looping, retrying>>

(* The rest of aquery, once the Answer has its evidence.                   *)
Synthesize ==
    /\ apc = "created"
    /\ answer.contexts # <<>> \/ gpc = "done"
    /\ LET contexts == IF answer.contexts # <<>> THEN answer.contexts
                       ELSE evidence.val
       IN  \E pre \in IF settings.pre THEN CallOutcomes(PreTexts) ELSE {NotCalled} :
           \E qa \in IF \/ pre.status = "raised"
                        \/ TooShort(ContextStr(
                              FilteredContexts(contexts, settings.answer_max_sources),
                              pre.text, settings.evidence_detailed_citations))
                     THEN {NotCalled} ELSE CallOutcomes(AnswerTexts) :
           \E post \in IF settings.post /\ pre.status # "raised" /\ qa.status # "raised"
                       THEN CallOutcomes(PostTexts) ELSE {NotCalled} :
              aquery_synthesize(contexts, pre, qa, post)
    /\ UNCHANGED settings
    /\ UNCHANGED <<gpc, matches, max_concurrent, call, results, issued, evidence>>
    /\ UNCHANGED <<store, ret, chunking, crossref, looping, retrying>>

(* The evidence an Answer can carry into aquery: chunks of different       *)
(* names, each with a positive score.                                      *)
GatheredContexts ==
    { cs \in UNION { [1..n -> { Evidence(name, sc) :
                                  name \in SourceNames, sc \in 1..MaxCtxScore }] :
                     n \in 0..Cardinality(SourceNames) } :
        \A i, j \in 1..Len(cs) : i # j => cs[i].name # cs[j].name }

QuerySettings ==
    [answer_max_sources : 1..MaxSources, pre : BOOLEAN, post : BOOLEAN,
     evidence_detailed_citations : BOOLEAN]

(* Answer(question=...), with the evidence of an earlier aget_evidence or  *)
(* with none; evidence was gathered from a store that holds documents.     *)
QueryInit ==
    /\ GatherStoreInit
    /\ gpc = "idle"
    /\ matches = <<>>
    /\ max_concurrent = MaxConcurrent
    /\ call = <<>>
    /\ results = <<>>
    /\ issued = <<>>
    /\ tokens = 0
    /\ evidence = ReturnedNone
    /\ apc = "created"
    /\ settings \in QuerySettings
    /\ \E contexts \in GatheredContexts :
          /\ Len(docs) = 0 => contexts = <<>>
          /\ answer = [question |-> Question, contexts |-> contexts,
                       answer |-> <<>>, formatted_answer |-> <<>>,
                       references |-> <<>>]
    /\ filtered_contexts = <<>>
    /\ context_str = <<>>
    /\ answer_text = <<>>
    /\ bib = <<>>
    /\ qa_calls = 0
    /\ ChunkIdle
    /\ CrossrefIdle
    /\ LoopIdle
    /\ RetryIdle

QueryNext ==
    \/ QueryGather
    \/ QueryFail
    \/ Synthesize

SpecQuery == QueryInit /\ [][QueryNext]_vars


-----------------------------------------------------------------------------
(* Claims about the answer synthesizer.                                    *)

Synthesized == apc = "synthesized"

Range(seq) == { seq[i] : i \in 1..Len(seq) }

(* C11: when the query has no usable evidence, aquery does not invoke the  *)
(* QA call, the answer text is exactly "I cannot answer this question due  *)
(* to insufficient information." and the bibliography is empty.            *)
C11_NoEvidenceShortCircuit ==
    (apc \in {"synthesized", "raised"} /\ gpc = "done" /\ evidence.val = <<>>)
        => /\ qa_calls = 0
           /\ bib = <<>>
           /\ (Synthesized /\ ~settings.post) => answer.answer = CannotAnswer

(* C12: the name of a retained evidence item is in the bibliography if and *)
(* only if it occurs in the produced answer text as a whole token; a name  *)
(* that occurs only as a proper prefix of a longer cited name ("S 1" in    *)
(* "S 11") is not in it.                                                   *)
C12_WholeTokenCitations ==
    Synthesized =>
       /\ \A c \in Range(filtered_contexts) :
             c.name \in Range(bib) <=> name_in_text(c.name, answer_text)
       /\ Range(bib) \subseteq Range(Names(filtered_contexts))
       /\ answer_text = <<120, 32, 83, 32, 49, 49, 46>> => <<83, 32, 49>> \notin Range(bib)
       /\ answer_text = <<120, 83, 32, 49, 32, 121>> => bib = <<>>

C12_Witness ==
    /\ Synthesized
    /\ answer_text = <<120, 32, 83, 32, 49, 49, 46>>
    /\ <<83, 32, 49>> \in Range(Names(filtered_contexts))
    /\ bib = << <<83, 32, 49, 49>> >>

(* C13: aquery retains the answer_max_sources contexts of highest score,   *)
(* in descending order of score; contexts of equal score keep the order    *)
(* they were retrieved in, in the ordering and in which of them survive    *)
(* the truncation.                                                         *)
C13_StableTopSources ==
    Synthesized =>
       LET cs == answer.contexts
           f == filtered_contexts
           pos(c) == CHOOSE i \in 1..Len(cs) : cs[i] = c
           Before(a, b) == \/ a.score > b.score
                           \/ a.score = b.score /\ pos(a) < pos(b)
       IN  /\ Len(f) = Min(settings.answer_max_sources, Len(cs))
           /\ Range(f) \subseteq Range(cs)
           /\ \A i, j \in 1..Len(f) : i < j => Before(f[i], f[j])
           /\ \A r \in Range(f) : \A d \in Range(cs) \ Range(f) : Before(r, d)

C13_Witness ==
    /\ Synthesized
    /\ Len(answer.contexts) > Len(filtered_contexts)
    /\ Len(filtered_contexts) = 2
    /\ filtered_contexts[1].score = filtered_contexts[2].score
    /\ \E d \in Range(answer.contexts) \ Range(filtered_contexts) :
          d.score = filtered_contexts[2].score


EndsWith(s, p) ==
    /\ Len(p) <= Len(s)
    /\ SubSeq(s, Len(s) - Len(p) + 1, Len(s)) = p

(* The QA call was made, on the context block context_str.                 *)
QACalled == apc \in {"synthesized", "raised"} /\ qa_calls > 0

(* C21: the context block passed to the QA call holds, for every retained  *)
(* evidence item, its source name followed by its summary, with or without *)
(* a pre-processing prompt, and ends with the retained source names as     *)
(* valid keys.                                                             *)
C21_ContextBlock ==
    QACalled =>
       /\ \A c \in Range(filtered_contexts) :
             Contains(context_str, c.name \o ColonSp \o c.context)
       /\ EndsWith(context_str,
                   ValidKeys \o Join(Names(filtered_contexts), CommaSp))

(* The part of C21 that holds: the valid keys end the block, and the       *)
(* evidence is in it when the pre-processing call gave a background.       *)
C21_WithBackground ==
    QACalled =>
       /\ EndsWith(context_str,
                   ValidKeys \o Join(Names(filtered_contexts), CommaSp))
       /\ Contains(context_str, ExtraBackground) =>
             \A c \in Range(filtered_contexts) :
                Contains(context_str, c.name \o ColonSp \o c.context)


(* Where sub first occurs in s; 0 if nowhere.                              *)
IndexOf(s, sub) ==
    IF Contains(s, sub)
    THEN CHOOSE i \in 1..(Len(s) - Len(sub) + 1) :
            /\ SubSeq(s, i, i + Len(sub) - 1) = sub
            /\ \A j \in 1..(i - 1) : SubSeq(s, j, j + Len(sub) - 1) # sub
    ELSE 0

(* The place of the source called name in the evidence as retrieved, and   *)
(* its score.                                                              *)
Retrieved(name) == CHOOSE i \in 1..Len(answer.contexts) : answer.contexts[i].name = name
ScoreOf(name) == answer.contexts[Retrieved(name)].score

(* The entry of the source called name in a References block: "(name): "   *)
Entry(name) == <<40>> \o name \o ParenColon

(* C23 as claimed: the bibliography lists the cited sources in the order   *)
(* their evidence was retrieved in, and the References block follows it.   *)
C23_RetrievalOrder ==
    Synthesized =>
       \A i, j \in 1..Len(bib) :
          i < j => /\ Retrieved(bib[i]) < Retrieved(bib[j])
                   /\ IndexOf(answer.references, Entry(bib[i]))
                         < IndexOf(answer.references, Entry(bib[j]))

(* C23 amended: the bibliography lists the cited sources by descending     *)
(* score, sources of equal score in the order their evidence was retrieved *)
(* in, and the numbered References block follows that same order.          *)
C23_RankOrder ==
    Synthesized =>
       /\ \A i, j \in 1..Len(bib) :
             i < j => /\ \/ ScoreOf(bib[i]) > ScoreOf(bib[j])
                         \/ /\ ScoreOf(bib[i]) = ScoreOf(bib[j])
                            /\ Retrieved(bib[i]) < Retrieved(bib[j])
                      /\ IndexOf(answer.references, Entry(bib[i]))
                            < IndexOf(answer.references, Entry(bib[j]))
       /\ \A i \in 1..Len(bib) :
             Contains(answer.references, <<48 + i>> \o DotParen \o bib[i] \o ParenColon)
       /\ bib # <<>> => EndsWith(answer.formatted_answer,
                                 ReferencesLine \o answer.references \o Newline)

C23_Witness ==
    /\ Synthesized
    /\ Len(bib) = 2
    /\ ScoreOf(bib[1]) > ScoreOf(bib[2])
    /\ Retrieved(bib[1]) > Retrieved(bib[2])
    /\ IndexOf(answer.references, Entry(bib[1])) = 4


-----------------------------------------------------------------------------
(* The chunkers (paperqa/readers.py).                                      *)
(*                                                                         *)
(* Parsed content is a sequence of parts: the pages of a PDF, the lines of *)
(* a code file, or the tokens of a text (each token standing for the       *)
(* characters it decodes to).  A character is the number of its position   *)
(* in the document, so that a chunk tells where its text comes from.       *)

MaxParts == 3         \* pages or lines of a document
MaxPartLen == 3       \* characters of one page or line
MaxChunkChars == 9    \* chunk_chars is 1..MaxChunkChars, overlap below it

RECURSIVE SumTo(_, _)
SumTo(lens, p) == IF p = 0 THEN 0 ELSE lens[p] + SumTo(lens, p - 1)

(* The content whose p-th part has lens[p] characters.                     *)
Content(lens) ==
    [p \in 1..Len(lens) |-> [c \in 1..lens[p] |-> SumTo(lens, p - 1) + c]]

RECURSIVE Flatten(_)
(* "".join(parts), and enc.decode(tokens)                                  *)
Flatten(parts) ==
    IF parts = <<>> THEN <<>> ELSE parts[1] \o Flatten(Tail(parts))

(* ParsedMetadata.total_parsed_text_length                                 *)
TotalLength(content) == Len(Flatten(content))

(* s[:n] and s[n:]                                                         *)
Prefix(s, n) == SubSeq(s, 1, Min(n, Len(s)))
Suffix(s, n) == SubSeq(s, n + 1, Len(s))

(* Text(text=..., name=f"{doc.docname} pages {first}-{last}"), and the     *)
(* like for lines and for chunk ordinals.                                  *)
Chunk(text, first, last) == [text |-> text, first |-> first, last |-> last]

RECURSIVE WhileLongerNoOverlap(_, _, _, _, _, _)
(* split = split[chunk_chars:]                                             *)
WhileLongerNoOverlap(split, first, last, txts, chars, over) ==
    IF Len(split) > chars
    THEN WhileLongerNoOverlap(Suffix(split, chars), last, last,
                              Append(txts, Chunk(Prefix(split, chars), first, last)),
                              chars, over)
    ELSE [split |-> split, first |-> first, texts |-> txts]

RECURSIVE WhileLonger(_, _, _, _, _, _)
(* while len(split) > chunk_chars: a chunk of chunk_chars characters is    *)
(* emitted, labeled first..last, and the buffer keeps what follows the     *)
(* first chunk_chars - overlap characters; the label restarts at last.     *)
WhileLonger(split, first, last, txts, chars, over) ==
    IF Len(split) > chars
    THEN WhileLonger(Suffix(split, chars - over), last, last,
                     Append(txts, Chunk(Prefix(split, chars), first, last)),
                     chars, over)
    ELSE [split |-> split, first |-> first, texts |-> txts]

RECURSIVE ForEachPart(_, _, _, _, _, _, _, _)
(* for page_num, page_text in content.items(), and for i, line in          *)
(* enumerate(content): the part numbered base + p - 1 is appended to the   *)
(* buffer, then the while loop runs.  first is -1 while nothing is         *)
(* buffered under a label yet (pages == []).                               *)
ForEachPart(content, p, base, split, first, txts, chars, over) ==
    IF p > Len(content)
    THEN [split |-> split, first |-> first, texts |-> txts]
    ELSE LET num == base + p - 1
             r == WhileLonger(split \o content[p],
                              IF first = -1 THEN num ELSE first,
                              num, txts, chars, over)
         IN  ForEachPart(content, p + 1, base, r.split, r.first, r.texts,
                         chars, over)

(* if len(split) > overlap or not texts: the rest of the buffer is emitted *)
FinalChunk(r, last, chars, over) ==
    IF Len(r.split) > over \/ r.texts = <<>>
    THEN Append(r.texts, Chunk(Prefix(r.split, chars), r.first, last))
    ELSE r.texts

(* chunk_pdf: pages are numbered from 1.                                   *)
chunk_pdf(content, chars, over) ==
    IF content = <<>> THEN Raised("ImpossibleParsingError")
    ELSE Returned("texts",
                  FinalChunk(ForEachPart(content, 1, 1, <<>>, -1, <<>>, chars, over),
                             Len(content), chars, over))

(* chunk_code_text: lines are numbered from 0 and last_line starts at 0;   *)
(* with no line at all, the loop variable i is unbound when the final      *)
(* chunk is named.                                                         *)
chunk_code_text(content, chars, over) ==
    IF content = <<>> THEN Raised("UnboundLocalError")
    ELSE Returned("texts",
                  FinalChunk(ForEachPart(content, 1, 0, <<>>, 0, <<>>, chars, over),
                             Len(content) - 1, chars, over))


-----------------------------------------------------------------------------
(* chunk_text computes in floating point (64-bit, round to nearest).  The  *)
(* model computes the exact quotients and corrects them where the floats   *)
(* differ: the three tables list, for every char_count up to 18,           *)
(* token_count up to 8 and chunk_chars up to 10, the cases in which        *)
(* ceil(token_count / chunk_tokens) is one above the exact value and       *)
(* int(...) of a bound is one below it.                                    *)

MaxChars == 17        \* characters of a tokenized text
MaxTokens == 7        \* tokens of a tokenized text

CeilDiv(a, b) == (a + b - 1) \div b

(* <<char_count, token_count, chunk_chars>>                                *)
CountRoundedUp ==
    { <<9, 5, 3>>, <<9, 7, 1>>, <<9, 7, 3>>, <<9, 7, 9>>, <<13, 5, 1>>,
      <<18, 5, 3>>, <<18, 5, 6>>, <<18, 7, 1>>, <<18, 7, 2>>, <<18, 7, 3>>,
      <<18, 7, 6>>, <<18, 7, 9>> }

(* <<char_count, token_count, chunk_chars, overlap, i>>                    *)
StartRoundedDown ==
    { <<9, 3, 8, 5, 1>>, <<9, 6, 8, 5, 1>>, <<9, 7, 1, 0, 9>>,
      <<9, 7, 3, 0, 3>>, <<9, 7, 9, 0, 1>>, <<10, 2, 7, 2, 1>>,
      <<10, 4, 7, 2, 1>>, <<10, 6, 2, 1, 3>>, <<10, 6, 3, 1, 2>>,
      <<10, 6, 6, 1, 1>>, <<10, 6, 9, 4, 1>>, <<10, 8, 7, 2, 1>>,
      <<12, 4, 2, 1, 5>>, <<12, 4, 8, 5, 1>>, <<12, 8, 2, 1, 5>>,
      <<12, 8, 8, 5, 1>>, <<14, 2, 3, 2, 3>>, <<14, 2, 6, 5, 2>>,
      <<14, 4, 3, 2, 3>>, <<14, 4, 6, 5, 2>>, <<14, 6, 3, 2, 3>>,
      <<14, 6, 6, 5, 2>>, <<14, 6, 9, 2, 1>>, <<14, 8, 3, 2, 3>>,
      <<14, 8, 6, 5, 2>>, <<15, 3, 7, 2, 1>>, <<15, 3, 7, 4, 2>>,
      <<15, 5, 2, 1, 5>>, <<15, 5, 8, 5, 1>>, <<15, 6, 7, 2, 1>>,
      <<15, 6, 7, 4, 2>>, <<18, 2, 8, 7, 2>>, <<18, 4, 8, 7, 2>>,
      <<18, 6, 2, 1, 5>>, <<18, 6, 8, 5, 1>>, <<18, 6, 8, 7, 2>>,
      <<18, 7, 1, 0, 18>>, <<18, 7, 2, 0, 9>>, <<18, 7, 3, 0, 6>>,
      <<18, 7, 6, 0, 3>>, <<18, 7, 9, 0, 2>>, <<18, 8, 8, 7, 2>> }

(* <<char_count, token_count, chunk_chars, overlap, i>>                    *)
StopRoundedDown ==
    { <<5, 3, 9, 1, 0>>, <<7, 3, 2, 1, 2>>, <<7, 3, 3, 1, 1>>,
      <<7, 3, 6, 1, 0>>, <<7, 3, 6, 2, 1>>, <<7, 6, 2, 1, 2>>,
      <<7, 6, 3, 1, 1>>, <<7, 6, 6, 1, 0>>, <<7, 6, 6, 2, 1>>,
      <<9, 7, 1, 0, 8>>, <<9, 7, 2, 1, 3>>, <<9, 7, 3, 0, 2>>,
      <<9, 7, 4, 1, 1>>, <<9, 7, 5, 4, 0>>, <<9, 7, 6, 3, 0>>,
      <<9, 7, 7, 2, 0>>, <<9, 7, 7, 4, 1>>, <<9, 7, 8, 1, 0>>,
      <<9, 7, 8, 2, 1>>, <<9, 7, 9, 0, 0>>, <<9, 7, 9, 0, 1>>,
      <<9, 7, 10, 8, 0>>, <<10, 1, 3, 1, 2>>, <<10, 2, 3, 1, 2>>,
      <<10, 3, 3, 1, 2>>, <<10, 3, 9, 1, 0>>, <<10, 3, 9, 2, 1>>,
      <<10, 4, 3, 1, 2>>, <<10, 6, 3, 1, 2>>, <<10, 6, 9, 1, 0>>,
      <<10, 6, 9, 2, 1>>, <<10, 8, 3, 1, 2>>, <<11, 5, 2, 1, 4>>,
      <<11, 5, 5, 1, 1>>, <<11, 5, 10, 1, 0>>, <<11, 5, 10, 2, 1>>,
      <<14, 2, 6, 3, 2>>, <<14, 3, 3, 2, 3>>, <<14, 3, 4, 2, 2>>,
      <<14, 3, 6, 2, 1>>, <<14, 4, 6, 3, 2>>, <<14, 6, 2, 1, 2>>,
      <<14, 6, 3, 1, 1>>, <<14, 6, 3, 2, 3>>, <<14, 6, 4, 2, 2>>,
      <<14, 6, 6, 1, 0>>, <<14, 6, 6, 2, 1>>, <<14, 8, 6, 3, 2>>,
      <<15, 3, 3, 1, 2>>, <<15, 3, 6, 2, 2>>, <<15, 3, 7, 4, 2>>,
      <<15, 5, 2, 1, 6>>, <<15, 6, 3, 1, 2>>, <<15, 6, 6, 2, 2>>,
      <<15, 6, 7, 4, 2>>, <<17, 3, 1, 0, 16>>, <<17, 3, 2, 1, 7>>,
      <<17, 3, 4, 1, 3>>, <<17, 3, 7, 3, 1>>, <<17, 3, 8, 1, 1>>,
      <<17, 6, 1, 0, 16>>, <<17, 6, 2, 1, 7>>, <<17, 6, 4, 1, 3>>,
      <<17, 6, 7, 3, 1>>, <<17, 6, 8, 1, 1>>, <<18, 5, 5, 3, 2>>,
      <<18, 6, 2, 1, 6>>, <<18, 6, 4, 1, 4>>, <<18, 7, 1, 0, 17>>,
      <<18, 7, 2, 0, 8>>, <<18, 7, 3, 0, 5>>, <<18, 7, 4, 2, 3>>,
      <<18, 7, 5, 3, 2>>, <<18, 7, 6, 0, 2>>, <<18, 7, 7, 4, 1>>,
      <<18, 7, 8, 2, 1>>, <<18, 7, 9, 0, 1>>, <<18, 7, 10, 8, 0>> }

(* chunk_count = ceil(token_count / chunk_tokens): in exact arithmetic     *)
(* ceil(char_count / chunk_chars)                                          *)
ChunkCount(char_count, token_count, chars) ==
    CeilDiv(char_count, chars)
    + (IF <<char_count, token_count, chars>> \in CountRoundedUp THEN 1 ELSE 0)

(* max(int(x), 0) for x = num / char_count                                 *)
Truncated(num, char_count, down) ==
    IF num <= 0 THEN 0
    ELSE (num \div char_count) - (IF down THEN 1 ELSE 0)

(* max(int(i * chunk_tokens - overlap_tokens), 0)                          *)
StartToken(i, char_count, token_count, chars, over) ==
    Truncated((i * chars - over) * token_count, char_count,
              <<char_count, token_count, chars, over, i>> \in StartRoundedDown)

(* int((i + 1) * chunk_tokens + overlap_tokens)                            *)
StopToken(i, char_count, token_count, chars, over) ==
    Truncated(((i + 1) * chars + over) * token_count, char_count,
              <<char_count, token_count, chars, over, i>> \in StopRoundedDown)

(* content[start:stop]                                                     *)
Slice(content, start, stop) == SubSeq(content, start + 1, Min(stop, Len(content)))

(* chunk_text: for i in range(chunk_count), the tokens from the start to   *)
(* the stop bound, decoded, named "chunk {i + 1}".                         *)
chunk_text(content, chars, over) ==
    IF content = <<>> THEN Raised("ImpossibleParsingError")
    ELSE LET char_count == TotalLength(content)
             token_count == Len(content)
         IN  Returned("texts",
                [i \in 1..ChunkCount(char_count, token_count, chars) |->
                   Chunk(Flatten(Slice(content,
                            StartToken(i - 1, char_count, token_count, chars, over),
                            StopToken(i - 1, char_count, token_count, chars, over))),
                         i, i)])

(* read_doc after the parsing: the chunker the kind of file selects.       *)
read_parsed(file, chars, over) ==
    IF file.kind = "pdf" THEN chunk_pdf(file.content, chars, over)
    ELSE IF file.kind = "txt" THEN chunk_text(file.content, chars, over)
    ELSE chunk_code_text(file.content, chars, over)


-----------------------------------------------------------------------------
(* read_doc on every small document, chunk size and overlap.               *)

PartLengths(shortest) ==
    UNION { [1..n -> shortest..MaxPartLen] : n \in 0..MaxParts }

(* The lengths of token_count tokens that decode to char_count characters, *)
(* as even as can be.                                                      *)
TokenLengths(char_count, token_count) ==
    [t \in 1..token_count |->
        (char_count \div token_count)
        + (IF t <= char_count % token_count THEN 1 ELSE 0)]

(* What parsing yields: the pages of a PDF (a page may hold no text), the  *)
(* lines of a code file, the tokens of a text (none for an empty text).    *)
Files ==
    { [kind |-> "pdf", content |-> Content(lens)] : lens \in PartLengths(0) }
    \cup { [kind |-> "code", content |-> Content(lens)] : lens \in PartLengths(1) }
    \cup { [kind |-> "txt", content |-> <<>>] }
    \cup UNION { { [kind |-> "txt",
                     content |-> Content(TokenLengths(char_count, token_count))] :
                       token_count \in 1..Min(char_count, MaxTokens) } :
                   char_count \in 1..MaxChars }

ChunkDoc ==
    /\ chunks = ReturnedNone
    /\ chunks' = read_parsed(parsed, chunk_chars, overlap)
    /\ UNCHANGED <<parsed, chunk_chars, overlap>>
    /\ UNCHANGED <<store, ret, gather, query, crossref, looping, retrying>>

ChunkInit ==
    /\ StoreInit
    /\ GatherIdle
    /\ QueryIdle
    /\ CrossrefIdle
    /\ LoopIdle
    /\ RetryIdle
    /\ parsed \in Files
    /\ chunk_chars \in 1..MaxChunkChars
    /\ overlap \in 0..(chunk_chars - 1)
    /\ chunks = ReturnedNone

ChunkNext == ChunkDoc

SpecChunk == ChunkInit /\ [][ChunkNext]_vars

-----------------------------------------------------------------------------
(* chunk_pdf and chunk_code_text step by step: one step per iteration of   *)
(* the for loop and of the while loop in it.                               *)

MaxLoopParts == 2     \* pages or lines of a document chunked step by step
MaxLoopChars == 3     \* its chunk_chars is 1..MaxLoopChars

LoopFiles ==
    { [kind |-> "pdf", content |-> Content(lens)] :
         lens \in UNION { [1..n -> 0..MaxPartLen] : n \in 0..MaxLoopParts } }
    \cup { [kind |-> "code", content |-> Content(lens)] :
              lens \in UNION { [1..n -> 1..MaxPartLen] : n \in 0..MaxLoopParts } }

(* page_num of the p-th page (from 1), and i of the p-th line (from 0)     *)
PartNumber(p) == IF parsed.kind = "pdf" THEN p ELSE p - 1

NextSplitByOverlap(s, chars, over) == Suffix(s, over)

(* split = split[chunk_chars - overlap :]                                  *)
NextSplit(s, chars, over) == Suffix(s, chars - over)

(* The checks before the loop; pages = [], last_line = 0.                  *)
LoopStart ==
    /\ cpc = "start"
    /\ IF parsed.kind = "pdf" /\ parsed.content = <<>>
       THEN /\ chunks' = Raised("ImpossibleParsingError")
            /\ cpc' = "raised"
            /\ UNCHANGED <<split_buf, part, first_part, emitted>>
       ELSE /\ cpc' = "for"
            /\ part' = 1
            /\ first_part' = IF parsed.kind = "pdf" THEN -1 ELSE 0
            /\ UNCHANGED <<split_buf, emitted, chunks>>
    /\ UNCHANGED <<parsed, chunk_chars, overlap>>
    /\ UNCHANGED <<store, ret, gather, query, crossref, retrying>>

(* for page_num, page_text in ...: split += page_text; pages.append(...)   *)
LoopFor ==
    /\ cpc = "for"
    /\ IF part > Len(parsed.content)
       THEN /\ cpc' = "final"
            /\ UNCHANGED <<split_buf, first_part>>
       ELSE /\ cpc' = "while"
            /\ split_buf' = split_buf \o parsed.content[part]
            /\ first_part' = IF first_part = -1 THEN PartNumber(part) ELSE first_part
    /\ UNCHANGED <<part, emitted>>
    /\ UNCHANGED chunking
    /\ UNCHANGED <<store, ret, gather, query, crossref, retrying>>

(* while len(split) > chunk_chars: a chunk is appended and the buffer cut  *)
LoopEmit ==
    /\ cpc = "while"
    /\ Len(split_buf) > chunk_chars
    /\ emitted' = Append(emitted, Chunk(Prefix(split_buf, chunk_chars),
                                        first_part, PartNumber(part)))
    /\ split_buf' = NextSplit(split_buf, chunk_chars, overlap)
    /\ first_part' = PartNumber(part)
    /\ UNCHANGED <<cpc, part>>
    /\ UNCHANGED chunking
    /\ UNCHANGED <<store, ret, gather, query, crossref, retrying>>

(* The while loop ends, and the for loop goes to the next page or line.    *)
LoopAdvance ==
    /\ cpc = "while"
    /\ Len(split_buf) <= chunk_chars
    /\ part' = part + 1
    /\ cpc' = "for"
    /\ UNCHANGED <<split_buf, first_part, emitted>>
    /\ UNCHANGED chunking
    /\ UNCHANGED <<store, ret, gather, query, crossref, retrying>>

(* After the loop: the final chunk, and the return.  With no line at all   *)
(* chunk_code_text names the final chunk by the unbound i.                 *)
LoopFinal ==
    /\ cpc = "final"
    /\ IF parsed.content = <<>>
       THEN /\ chunks' = Raised("UnboundLocalError")
            /\ cpc' = "raised"
       ELSE /\ chunks' = Returned("texts",
                  FinalChunk([split |-> split_buf, first |-> first_part,
                              texts |-> emitted],
                             PartNumber(Len(parsed.content)), chunk_chars, overlap))
            /\ cpc' = "done"
    /\ UNCHANGED <<split_buf, part, first_part, emitted>>
    /\ UNCHANGED <<parsed, chunk_chars, overlap>>
    /\ UNCHANGED <<store, ret, gather, query, crossref, retrying>>

LoopInit ==
    /\ StoreInit
    /\ GatherIdle
    /\ QueryIdle
    /\ CrossrefIdle
    /\ RetryIdle
    /\ parsed \in LoopFiles
    /\ chunk_chars \in 1..MaxLoopChars
    /\ overlap \in 0..(chunk_chars - 1)
    /\ chunks = ReturnedNone
    /\ cpc = "start"
    /\ split_buf = <<>>
    /\ part = 0
    /\ first_part = 0
    /\ emitted = <<>>

LoopNext ==
    \/ LoopStart
    \/ LoopFor
    \/ LoopEmit
    \/ LoopAdvance
    \/ LoopFinal

SpecLoop == LoopInit /\ [][LoopNext]_vars

(* The chunker is sequential code: it takes its next step.                 *)
FairSpecLoop == LoopInit /\ [][LoopNext]_vars /\ WF_vars(LoopNext)

(* The steps compute what chunk_pdf and chunk_code_text compute.           *)
LoopAgrees ==
    cpc \in {"done", "raised"} => chunks = read_parsed(parsed, chunk_chars, overlap)

-----------------------------------------------------------------------------
(* Docs.aadd on a file: the first chunk is peeked at when no citation is   *)
(* given (cited is FALSE), the name is made unique, the file is read into  *)
(* chunks with an overlap of 100, the first chunk is checked, and the      *)
(* chunks go to aadd_texts.                                                *)

DefaultChunkChars == 3000
DefaultOverlap == 250
ReadOverlap == 100
MinTextLen == 10

(* The loose check on what was read.                                       *)
LooksUnread(txts, is_text) ==
    \/ Len(txts) = 0
    \/ Len(txts[1].text) < MinTextLen
    \/ ~is_text

(* What aadd(path, citation, dockey=dockey) returns or raises, for the     *)
(* chunks that reading the file yields.                                    *)
aadd_result(dockey, docname, cited, peeked, read, is_text) ==
    IF ~cited /\ peeked.status # "ok" THEN peeked
    ELSE IF ~cited /\ Len(peeked.val) = 0 THEN Raised("ValueError")
    ELSE IF read.status # "ok" THEN read
    ELSE IF LooksUnread(read.val, is_text) THEN Raised("ValueError")
    ELSE IF aadd_texts_result(dockey, Len(read.val)) = Returned("bool", TRUE)
         THEN Returned("str", docname)
         ELSE ReturnedNone

IngestOfNameKept(file, dockey, base, cited, is_text) ==
    LET docname == get_unique_name(base, docnames)
        peeked == read_parsed(file, DefaultChunkChars, DefaultOverlap)
        read == read_parsed(file, DefaultChunkChars, ReadOverlap)
        result == aadd_result(dockey, docname, cited, peeked, read, is_text)
    IN  /\ parsed' = file
        /\ chunk_chars' = DefaultChunkChars
        /\ overlap' = ReadOverlap
        /\ chunks' = IF ~cited /\ peeked.status # "ok" THEN peeked ELSE read
        /\ ret' = result
        /\ IF result.status = "ok"
           THEN aadd_texts(dockey, docname, Len(read.val))
           ELSE /\ docnames' = docnames \cup {docname}
                /\ UNCHANGED <<docs, texts, deleted_dockeys, texts_index,
                               docs_index, jit_texts_index>>
        /\ UNCHANGED <<gather, query, crossref, looping, retrying>>

(* Docs.aadd(path, citation, dockey=dockey): the store is touched by       *)
(* aadd_texts only, which is reached when nothing raised before it.        *)
IngestOf(file, dockey, base, cited, is_text) ==
    LET docname == get_unique_name(base, docnames)
        peeked == read_parsed(file, DefaultChunkChars, DefaultOverlap)
        read == read_parsed(file, DefaultChunkChars, ReadOverlap)
        result == aadd_result(dockey, docname, cited, peeked, read, is_text)
    IN  /\ parsed' = file
        /\ chunk_chars' = DefaultChunkChars
        /\ overlap' = ReadOverlap
        /\ chunks' = IF ~cited /\ peeked.status # "ok" THEN peeked ELSE read
        /\ ret' = result
        /\ IF result.status = "ok"
           THEN aadd_texts(dockey, docname, Len(read.val))
           ELSE UNCHANGED store
        /\ UNCHANGED <<gather, query, crossref, looping, retrying>>

(* Files to ingest: nothing parsed, a text shorter than the check asks     *)
(* for, and a text that passes it.  (For these texts at the default chunk  *)
(* size the floats of chunk_text give the exact bounds.)                   *)
IngestFiles ==
    { [kind |-> kind, content |-> content] :
         kind \in {"pdf", "txt", "code"},
         content \in { <<>>, Content(<<MinTextLen - 1>>), Content(<<MinTextLen, 2>>) } }

MaxIngests == 2       \* documents registered by ingestion

(* Files with no content are ingested at any time, others while fewer than *)
(* MaxIngests documents were registered.                                   *)
Ingest ==
    \E file \in IngestFiles, dockey \in Keys, base \in BaseNames :
       \E cited, is_text \in BOOLEAN :
          /\ file.content = <<>> \/ Len(docs_index) < MaxIngests
          /\ IngestOf(file, dockey, base, cited, is_text)

IngestNext == Ingest

SpecIngest == Init /\ [][IngestNext]_vars

-----------------------------------------------------------------------------
(* The Crossref metadata provider (paperqa/clients/crossref.py).           *)
(*                                                                         *)
(* A DOI is a number, a title is a number; the similarity of the title of  *)
(* the record found to the title asked for is a percentage the response    *)
(* carries.                                                                *)

TITLE_SET_SIMILARITY_THRESHOLD == 75

NoDOI == 0
NoTitle == 0

(* DOIQuery and TitleAuthorQuery; fields is the selection of fields asked  *)
(* for: none given, one that holds "bibtex", one that does not.            *)
Queries ==
    { [kind |-> "DOIQuery", doi |-> 1, title |-> NoTitle,
       threshold |-> TITLE_SET_SIMILARITY_THRESHOLD, fields |-> f] :
         f \in {"None", "with bibtex", "without bibtex"} }
    \cup { [kind |-> "TitleAuthorQuery", doi |-> NoDOI, title |-> 1,
            threshold |-> TITLE_SET_SIMILARITY_THRESHOLD, fields |-> f] :
              f \in {"None", "with bibtex", "without bibtex"} }

(* What the Crossref API answers: the HTTP status, whether the body is     *)
(* JSON, its "status", its message (one record: items = -1, or a list of   *)
(* 0 or 1 records), the record's title (if any) and DOI, and whether the   *)
(* BibTeX of that DOI can be fetched.                                      *)
Responses ==
    [http_ok : BOOLEAN, json_ok : BOOLEAN, status : {"ok", "failed"},
     items : {-1, 0, 1}, has_title : BOOLEAN, similarity : {50, 75, 100},
     doi : {1, 2}, bibtex_ok : BOOLEAN]

(* strings_similarity(message["title"][0], title)                          *)
strings_similarity(resp) == resp.similarity

(* doi_to_bibtex: DOINotFoundError unless the response is ok               *)
doi_to_bibtex(resp) ==
    IF resp.bibtex_ok THEN Returned("str", "bibtex")
    ELSE Raised("DOINotFoundError")

(* parse_crossref_to_doc_details: a DOINotFoundError of doi_to_bibtex is   *)
(* caught, and the details are made without the BibTeX of Crossref.        *)
parse_crossref_to_doc_details(resp, query_bibtex) ==
    Returned("DocDetails",
             [doi |-> resp.doi,
              bibtex_source |-> IF query_bibtex /\ doi_to_bibtex(resp).status = "ok"
                                THEN "crossref" ELSE "self_generated"])

(* get_doc_details_from_crossref(doi=..., title=..., fields=...)           *)
get_doc_details_from_crossref(doi, title, threshold, fields, resp) ==
    IF doi = NoDOI /\ title = NoTitle THEN Raised("ValueError")
    ELSE IF ~resp.http_ok THEN Raised("DOINotFoundError")
    ELSE IF ~resp.json_ok THEN Raised("DOINotFoundError")
    ELSE IF resp.status = "failed" THEN Raised("DOINotFoundError")
    ELSE IF resp.items = 0 THEN Raised("DOINotFoundError")
    ELSE IF doi = NoDOI /\ ~resp.has_title THEN Raised("KeyError")
    ELSE IF doi = NoDOI /\ strings_similarity(resp) < threshold
         THEN Raised("DOINotFoundError")
    ELSE IF doi # NoDOI /\ resp.doi # doi THEN Raised("DOINotFoundError")
    ELSE parse_crossref_to_doc_details(resp, fields # "without bibtex")

QueryUncaught(q, resp) ==
    IF q.kind = "DOIQuery"
    THEN get_doc_details_from_crossref(q.doi, NoTitle, q.threshold,
                                       q.fields, resp)
    ELSE get_doc_details_from_crossref(NoDOI, q.title, q.threshold,
                                       q.fields, resp)

(* CrossrefProvider._query: DOINotFoundError is logged, and None returned. *)
CrossrefProvider_query(q, resp) ==
    LET r == IF q.kind = "DOIQuery"
             THEN get_doc_details_from_crossref(q.doi, NoTitle, q.threshold,
                                                q.fields, resp)
             ELSE get_doc_details_from_crossref(NoDOI, q.title, q.threshold,
                                                q.fields, resp)
    IN  IF r.status = "DOINotFoundError" THEN ReturnedNone ELSE r

(* One query, and the response it gets.                                    *)
CrossrefQuery ==
    \E q \in Queries, resp \in Responses :
        /\ cquery = NoQuery
        /\ cquery' = q
        /\ response' = resp
        /\ details' = CrossrefProvider_query(q, resp)
        /\ UNCHANGED <<store, ret, gather, query, chunking, looping, retrying>>

CrossrefNext == CrossrefQuery

SpecCrossref == Init /\ [][CrossrefNext]_vars

-----------------------------------------------------------------------------
(* Claims about the chunkers.                                              *)

Chunked == chunks.type = "texts"

DocLength == TotalLength(parsed.content)

RECURSIVE MinusOverlaps(_, _)
(* The first chunk, followed by every later chunk without its first over   *)
(* characters.                                                             *)
MinusOverlaps(txts, over) ==
    IF txts = <<>> THEN <<>>
    ELSE IF Len(txts) = 1 THEN txts[1].text
    ELSE MinusOverlaps(SubSeq(txts, 1, Len(txts) - 1), over)
         \o Suffix(txts[Len(txts)].text, over)

(* C14: with 0 <= overlap < chunk size, the chunks of the page-based and   *)
(* of the line-based chunker reconstruct the source (the first chunk, then *)
(* every later chunk without its first overlap characters, is the          *)
(* concatenation of the pages or lines); every token of the token-based    *)
(* chunker's content lies in a chunk, and its chunks are in content order. *)
C14_ChunksReconstruct ==
    Chunked =>
       /\ parsed.kind \in {"pdf", "code"} =>
             MinusOverlaps(chunks.val, overlap) = Flatten(parsed.content)
       /\ parsed.kind = "txt" =>
             /\ \A t \in 1..Len(parsed.content) :
                   \E i \in 1..Len(chunks.val) :
                      Range(parsed.content[t]) \subseteq Range(chunks.val[i].text)
             /\ \A i, j \in 1..Len(chunks.val) :
                   (i < j /\ chunks.val[i].text # <<>> /\ chunks.val[j].text # <<>>)
                      => /\ chunks.val[i].text[1] <= chunks.val[j].text[1]
                         /\ chunks.val[i].text[Len(chunks.val[i].text)]
                               <= chunks.val[j].text[Len(chunks.val[j].text)]

C14_PagesAndLinesReconstruct ==
    (Chunked /\ parsed.kind \in {"pdf", "code"}) =>
        MinusOverlaps(chunks.val, overlap) = Flatten(parsed.content)

(* C15 as claimed: for a document of length L >= 1, the number of chunks   *)
(* differs from ceil(L / (C - O)) by at most 1, for each of the chunkers.  *)
C15_CountNearQuotient ==
    (Chunked /\ DocLength >= 1) =>
       /\ Len(chunks.val) <= CeilDiv(DocLength, chunk_chars - overlap) + 1
       /\ Len(chunks.val) >= CeilDiv(DocLength, chunk_chars - overlap) - 1

Max(a, b) == IF a > b THEN a ELSE b

(* C15 amended: for a document of length L >= 1, the page-based and the    *)
(* line-based chunker produce 1 + ceil(max(L - C, 0) / (C - O)) chunks,    *)
(* the token-based chunker ceil(L / C) chunks, or one more than that when  *)
(* C divides L.                                                            *)
C15_ChunkCount ==
    (Chunked /\ DocLength >= 1) =>
       /\ parsed.kind \in {"pdf", "code"} =>
             Len(chunks.val)
                = 1 + CeilDiv(Max(DocLength - chunk_chars, 0), chunk_chars - overlap)
       /\ parsed.kind = "txt" =>
             \/ Len(chunks.val) = CeilDiv(DocLength, chunk_chars)
             \/ /\ DocLength % chunk_chars = 0
                /\ Len(chunks.val) = CeilDiv(DocLength, chunk_chars) + 1

C15_Witness ==
    /\ Chunked
    /\ parsed.kind = "pdf"
    /\ Len(parsed.content) > 1
    /\ overlap > 0
    /\ Len(chunks.val) + 1 < CeilDiv(DocLength, chunk_chars - overlap)

(* The page the character ch of the document is on.                        *)
PageOf(ch) == CHOOSE p \in 1..Len(parsed.content) : ch \in Range(parsed.content[p])

(* C22: every chunk of the page-based chunker is labeled with the range of *)
(* pages it spans: each character of its text is from a page inside the    *)
(* labeled range, and the first and the last labeled page each give it a   *)
(* character, unless that page is empty.                                   *)
C22_PageLabels ==
    (Chunked /\ parsed.kind = "pdf") =>
       \A i \in 1..Len(chunks.val) :
          LET c == chunks.val[i] IN
          /\ \A ch \in Range(c.text) : PageOf(ch) \in c.first..c.last
          /\ parsed.content[c.first] # <<>> =>
                \E ch \in Range(c.text) : PageOf(ch) = c.first
          /\ parsed.content[c.last] # <<>> =>
                \E ch \in Range(c.text) : PageOf(ch) = c.last

(* The part of C22 that holds: the label is a range of pages of the        *)
(* document, and no character of the chunk is from a page after it.        *)
C22_NoLaterPage ==
    (Chunked /\ parsed.kind = "pdf") =>
       \A i \in 1..Len(chunks.val) :
          LET c == chunks.val[i] IN
          /\ 1 <= c.first /\ c.first <= c.last /\ c.last <= Len(parsed.content)
          /\ \A ch \in Range(c.text) : PageOf(ch) <= c.last

(* C16: non-empty content yields at least one chunk; a document no longer  *)
(* than the chunk size yields exactly one chunk; the last chunk is never   *)
(* empty, also when the length is a multiple of the step.                  *)
C16_OneChunkNoEmptyTail ==
    (Chunked /\ DocLength >= 1) =>
       /\ Len(chunks.val) >= 1
       /\ DocLength <= chunk_chars => Len(chunks.val) = 1
       /\ chunks.val[Len(chunks.val)].text # <<>>

C16_PagesAndLines ==
    (Chunked /\ DocLength >= 1 /\ parsed.kind \in {"pdf", "code"}) =>
       /\ Len(chunks.val) >= 1
       /\ DocLength <= chunk_chars => Len(chunks.val) = 1
       /\ chunks.val[Len(chunks.val)].text # <<>>

-----------------------------------------------------------------------------
(* Claims about ingestion.                                                 *)

EmptyFiles ==
    { file \in IngestFiles : file.kind \in {"pdf", "txt"} /\ file.content = <<>> }

(* C17: chunking an empty page map or an empty token list fails with       *)
(* ImpossibleParsingError and returns no chunks, and the ingestion that    *)
(* hits the error raises it and leaves documents, chunks, docnames,        *)
(* tombstones and indices of the store as they were.                       *)
C17_EmptyContentRegistersNothing ==
    [][\A file \in EmptyFiles, dockey \in Keys, base \in BaseNames :
          \A cited, is_text \in BOOLEAN :
             IngestOf(file, dockey, base, cited, is_text) =>
                /\ chunks' = Raised("ImpossibleParsingError")
                /\ ret' = Raised("ImpossibleParsingError")
                /\ UNCHANGED store]_vars

C17_Witness ==
    /\ parsed \in EmptyFiles
    /\ chunks = Raised("ImpossibleParsingError")
    /\ ret = Raised("ImpossibleParsingError")
    /\ Len(docs) = 1

-----------------------------------------------------------------------------
(* Claims about gather.                                                    *)

(* C18: aget_evidence on a store whose docs mapping is empty (never        *)
(* populated, or emptied by deleting every document) returns the empty     *)
(* list; it does not raise, it retrieves nothing and issues no scoring     *)
(* call, and it counts no tokens.                                          *)
C18_EmptyStoreGather ==
    [][\A k \in 1..MaxMatchK, exclude \in ExcludeFilters :
          (Len(docs) = 0 /\ GatherStartOf(k, exclude)) =>
             /\ evidence' = Returned("contexts", <<>>)
             /\ gpc' = "done"
             /\ UNCHANGED <<matches, call, results, issued, tokens>>]_vars

C18_Witness ==
    /\ gpc = "done"
    /\ Len(docs) = 0
    /\ deleted_dockeys # {}
    /\ Len(texts_index) > 0
    /\ evidence = Returned("contexts", <<>>)
    /\ call = <<>>

(* C19: every context aget_evidence returns has a score above zero; a     *)
(* candidate scored zero or below, one whose score could not be parsed,    *)
(* and one whose call left no context, is not returned.                    *)
C19_PositiveScoresOnly ==
    (gpc = "done" /\ evidence.type = "contexts") =>
       /\ \A j \in 1..Len(evidence.val) :
             ~evidence.val[j].none /\ evidence.val[j].score > 0
       /\ \A i \in 1..Len(matches) :
             (issued[i].kind # "scored" \/ issued[i].score <= 0) =>
                \A j \in 1..Len(evidence.val) : evidence.val[j].text # matches[i].text

C19_Witness ==
    /\ gpc = "done"
    /\ Len(matches) = MaxCand
    /\ Len(evidence.val) = 1
    /\ \E i \in 1..Len(matches) : issued[i].kind = "scored" /\ issued[i].score <= 0
    /\ \E i \in 1..Len(matches) : issued[i].kind # "scored"

(* What gather does with the candidates: it asks retrieve for              *)
(* k + |exclude| of them, drops those in exclude, and queues one scoring   *)
(* call for each of the others.                                            *)
OverFetched(k, exclude) ==
    /\ gpc' = "map"
    /\ \E found \in retrieve_texts(k + Cardinality(exclude)) :
          matches' = SelectSeq(found, LAMBDA m : m.text \notin exclude)
    /\ call' = [i \in 1..Len(matches') |-> "queued"]

(* C25: on a store with documents, gather requests k + |exclude|           *)
(* candidates for every exclusion set, the absent or empty one included    *)
(* (then exactly k), drops each candidate that is in the set and scores    *)
(* the others only.                                                        *)
C25_OverFetchByExclusion ==
    [][\A k \in 1..MaxMatchK, exclude \in ExcludeFilters :
          (Len(docs) > 0 /\ GatherStartOf(k, exclude)) => OverFetched(k, exclude)]_vars

(* The part of C25 that holds: the exclusion set is not empty.             *)
C25_NonEmptyExclusion ==
    [][\A k \in 1..MaxMatchK, exclude \in ExcludeFilters \ {{}} :
          (Len(docs) > 0 /\ GatherStartOf(k, exclude)) => OverFetched(k, exclude)]_vars

-----------------------------------------------------------------------------
(* Claims about the Crossref provider.                                     *)

Queried == cquery.kind # "None"

(* The response holds no record that matches the query.                    *)
NoMatchingRecord ==
    \/ ~response.http_ok
    \/ /\ response.http_ok /\ response.json_ok
       /\ \/ response.status = "failed"
          \/ response.items = 0
          \/ /\ cquery.kind = "TitleAuthorQuery"
             /\ response.has_title
             /\ response.similarity < cquery.threshold
          \/ /\ cquery.kind = "DOIQuery"
             /\ response.doi # cquery.doi

(* C20: a Crossref query answered with an HTTP error status, a failed      *)
(* status, an empty item list, a title less similar than the threshold or  *)
(* another DOI than the one asked for returns None from the provider, and  *)
(* no query makes the provider raise DOINotFoundError.                     *)
C20_NoMatchReturnsNone ==
    Queried =>
       /\ details.status # "DOINotFoundError"
       /\ NoMatchingRecord => details = ReturnedNone

C20_Witness ==
    /\ Queried
    /\ cquery.kind = "TitleAuthorQuery"
    /\ response.http_ok /\ response.json_ok /\ response.status = "ok"
    /\ response.items = 1
    /\ response.has_title
    /\ response.similarity < cquery.threshold
    /\ details = ReturnedNone

-----------------------------------------------------------------------------
(* Claims about the chunkers' loops.                                       *)

(* C24: for 0 <= overlap < chunk_chars the page-based and the line-based   *)
(* chunker terminate (they return or raise), and each emission shortens    *)
(* the rolling buffer by chunk_chars - overlap characters, which is at     *)
(* least one.                                                              *)
C24_ChunkersTerminate ==
    /\ [][LoopEmit =>
            /\ Len(split_buf') = Len(split_buf) - (chunk_chars - overlap)
            /\ Len(split_buf') < Len(split_buf)]_vars
    /\ <>(cpc \in {"done", "raised"})

C24_Witness ==
    /\ cpc = "done"
    /\ overlap > 0
    /\ Len(emitted) >= 2
    /\ Len(chunks.val) = Len(emitted) + 1

-----------------------------------------------------------------------------
(* Claims about the store under deletion and clear_docs.                   *)

LiveNames == { docs[i].docname : i \in 1..Len(docs) }

(* C26: after any sequence of adds, deletes (by name or by dockey) and     *)
(* clear_docs, the used docnames are the docnames of the live documents:   *)
(* the name of a deleted document is released.                             *)
C26_DocnamesAreLiveNames == docnames = LiveNames

(* The part of C26 that holds: the name of every live document is used.    *)
C26_LiveNamesUsed == LiveNames \subseteq docnames

StaleOnlyByDeletion ==
    /\ Range(texts) \subseteq Range(texts_index)
    /\ \A i \in 1..Len(texts_index) :
          \/ texts_index[i] \in Range(texts)
          \/ texts_index[i].dockey \in deleted_dockeys
    /\ DocKeys \cap deleted_dockeys = {}

C28_OverFetchSuffices ==
    [][\A k \in 0..MaxK :
          (StaleOnlyByDeletion /\ Len(texts) >= k /\ RetrieveOf(k))
             => Len(ret'.val) = k]_vars

(* The part of C28 that holds: retrieve never returns more than k chunks,  *)
(* and returns exactly k when the index holds live chunks only.            *)
C28_NoTombstones ==
    [][\A k \in 0..MaxK :
          RetrieveOf(k) =>
             /\ Len(ret'.val) <= k
             /\ (StaleOnlyByDeletion /\ deleted_dockeys = {} /\ Len(texts) >= k)
                   => Len(ret'.val) = k]_vars

-----------------------------------------------------------------------------
(* C29: aquery writes the Answer's answer, formatted_answer, references    *)
(* and contexts only as its last step: when the pre-processing, the QA or  *)
(* the post-processing call raises, the four fields are as they were       *)
(* before the call, and when none raises the contexts written are the      *)
(* evidence the answer was made from.                                      *)
C29_FieldsWrittenLast ==
    [][Synthesize =>
          /\ apc' = "raised" =>
                /\ answer'.answer = answer.answer
                /\ answer'.formatted_answer = answer.formatted_answer
                /\ answer'.references = answer.references
                /\ answer'.contexts = answer.contexts
          /\ apc' = "synthesized" =>
                /\ answer'.answer # <<>>
                /\ answer'.contexts = IF answer.contexts # <<>>
                                      THEN answer.contexts ELSE evidence.val]_vars

(* The post-processing call raised after the QA call had answered with a   *)
(* cited text: the Answer still has no answer and no references.           *)
C29_Witness ==
    /\ apc = "raised"
    /\ settings.post
    /\ qa_calls = 1
    /\ answer_text # <<>>
    /\ Len(bib) > 0
    /\ answer.answer = <<>>
    /\ answer.formatted_answer = <<>>
    /\ answer.references = <<>>

-----------------------------------------------------------------------------
(* clients/utils.py, _get_with_retrying: one GET under tenacity's retry.   *)

INTERNAL_SERVER_ERROR == 500
GATEWAY_TIMEOUT == 504
StopAfterAttempt == 5

(* Statuses raise_for_status raises for, and the ones a caller may map.    *)
ErrorStatuses == {404, 429, INTERNAL_SERVER_ERROR, GATEWAY_TIMEOUT}
MappedStatuses == {404, INTERNAL_SERVER_ERROR}

(* What one request does: a JSON body comes back, the status is an error,  *)
(* the body of a 200 is not JSON (aiohttp's ContentTypeError, which is a   *)
(* ClientResponseError), the server disconnects, or the timeout expires.   *)
GetOutcomes ==
    { [kind |-> "json", status |-> 200], [kind |-> "notjson", status |-> 200],
      [kind |-> "disconnected", status |-> 0], [kind |-> "timeout", status |-> 0] }
    \cup { [kind |-> "status", status |-> st] : st \in ErrorStatuses }

Failed(cls, st) == [status |-> "raised", type |-> cls, val |-> st]

(* The function body: the JSON body, or the exception that leaves it.  A   *)
(* ClientResponseError whose status is mapped leaves as the mapped         *)
(* exception.                                                              *)
get_with_retrying(outcome, mappings) ==
    CASE outcome.kind = "json" -> Returned("json", outcome.status)
      [] outcome.kind \in {"status", "notjson"} ->
            IF mappings # {} /\ outcome.status \in mappings
            THEN Failed("Mapped", outcome.status)
            ELSE Failed("ClientResponseError", outcome.status)
      [] outcome.kind = "disconnected" -> Failed("ServerDisconnectedError", 0)
      [] outcome.kind = "timeout" -> Failed("TimeoutError", 0)

(* A predicate that retries after every response error.                    *)
ShouldRetryAnyStatus(r) ==
    \/ r.type = "ServerDisconnectedError"
    \/ r.type = "ClientResponseError"

(* retry_if_exception(lambda x: ...)                                       *)
ShouldRetry(r) ==
    \/ r.type = "ServerDisconnectedError"
    \/ /\ r.type = "ClientResponseError"
       /\ r.val \in {INTERNAL_SERVER_ERROR, GATEWAY_TIMEOUT}

(* One attempt and what tenacity does with its outcome: a result is        *)
(* returned, an exception the predicate rejects is raised, one it accepts  *)
(* is followed by a sleep, or after the last attempt by RetryError.        *)
RetryAttempt ==
    /\ rpc = "requesting"
    /\ \E outcome \in GetOutcomes :
          LET r == get_with_retrying(outcome, http_exception_mappings)
          IN  /\ attempts' = attempts + 1
              /\ IF r.status = "ok"
                 THEN rpc' = "returned" /\ reply' = r
                 ELSE IF ~ShouldRetry(r)
                 THEN rpc' = "raised" /\ reply' = r
                 ELSE IF attempts + 1 >= StopAfterAttempt
                 THEN rpc' = "raised" /\ reply' = Failed("RetryError", r.val)
                 ELSE rpc' = "sleeping" /\ reply' = r
    /\ UNCHANGED http_exception_mappings
    /\ UNCHANGED <<store, ret, gather, query, chunking, crossref, looping>>

(* wait_incrementing(0.1, 0.1) is over: the function is called again.      *)
RetrySleep ==
    /\ rpc = "sleeping"
    /\ rpc' = "requesting"
    /\ UNCHANGED <<attempts, reply, http_exception_mappings>>
    /\ UNCHANGED <<store, ret, gather, query, chunking, crossref, looping>>

RetryInit ==
    /\ StoreInit
    /\ GatherIdle
    /\ QueryIdle
    /\ ChunkIdle
    /\ CrossrefIdle
    /\ LoopIdle
    /\ rpc = "requesting"
    /\ attempts = 0
    /\ reply = ReturnedNone
    /\ http_exception_mappings \in SUBSET MappedStatuses

RetryNext ==
    \/ RetryAttempt
    \/ RetrySleep

SpecRetry == RetryInit /\ [][RetryNext]_vars

(* The event loop runs the coroutine: a request ends (by the timeout at    *)
(* the latest) and a sleep ends.                                           *)
FairSpecRetry == RetryInit /\ [][RetryNext]_vars /\ WF_vars(RetryNext)

RetryEnded == rpc \in {"returned", "raised"}

(* C30: a call issues at most 5 requests and ends by returning the JSON    *)
(* body or raising; a request after the first follows a server disconnect  *)
(* or a response error of status 500 or 504 only; any other failure, a     *)
(* mapped status included, is raised with no further request, and a        *)
(* successful response ends the attempts.                                  *)
C30_BoundedRetry ==
    /\ [](attempts <= 5)
    /\ [][/\ (attempts' # attempts /\ attempts >= 1) =>
                \/ reply.type = "ServerDisconnectedError"
                \/ reply.type = "ClientResponseError" /\ reply.val \in {500, 504}
          /\ (attempts' # attempts /\ reply'.status = "ok") =>
                rpc' = "returned" /\ reply'.type = "json"
          /\ (attempts' # attempts
                 /\ reply'.type \in {"Mapped", "TimeoutError"}) => rpc' = "raised"
          /\ (attempts' # attempts /\ reply'.type = "ClientResponseError"
                 /\ reply'.val \notin {500, 504}) => rpc' = "raised"
          /\ RetryEnded => (attempts' = attempts /\ reply' = reply /\ RetryEnded')]_vars
    /\ <>RetryEnded

(* The fifth request is answered after four re-attempts.                   *)
C30_Witness ==
    /\ rpc = "returned"
    /\ attempts = 5
    /\ reply.type = "json"

=============================================================================
